---- MODULE Spec2Model ----
(***************************************************************************)
(* Model of the selection / paste core of egui_tabular:                    *)
(*   - SelectedRange (src/src/table_view/state.rs)                         *)
(*   - TableView key input, paste reconciliation and selection handling    *)
(*     (src/src/table_view/interaction.rs, src/src/table_view.rs)          *)
(*   - CsvBackend cell storage (src/src/backends/csv.rs)                   *)
(***************************************************************************)
EXTENDS Integers, Sequences, FiniteSets, TLC

\* ------------------------------------------------------------------------
\* Bounds
\* ------------------------------------------------------------------------

\* largest row / column index handed to a SelectedRange method
MaxIdx == 2

\* ------------------------------------------------------------------------
\* Option<T>: None is the empty tuple, Some(x) the one-element tuple
\* ------------------------------------------------------------------------

None == <<>>

Some(x) == <<x>>

IsSome(o) == Len(o) = 1

Unwrap(o) == o[1]

Min2(a, b) == IF a < b THEN a ELSE b

Max2(a, b) == IF a > b THEN a ELSE b

\* usize::saturating_sub(1)
SatSub1(n) == IF n > 0 THEN n - 1 ELSE 0

\* ------------------------------------------------------------------------
\* SelectedRange (state.rs)
\* ------------------------------------------------------------------------

single_cell(row_idx, col_idx) ==
    [row_start |-> row_idx, row_end |-> row_idx,
     col_start |-> col_idx, col_end |-> col_idx, is_editing |-> FALSE]

single_row(row_idx, col_count) ==
    [row_start |-> row_idx, row_end |-> row_idx,
     col_start |-> 0, col_end |-> col_count, is_editing |-> FALSE]

rect(width, height) ==
    [row_start |-> 0, row_end |-> SatSub1(height),
     col_start |-> 0, col_end |-> SatSub1(width), is_editing |-> FALSE]

is_single_cell(r) == r.row_start = r.row_end /\ r.col_start = r.col_end

\* PartialEq for SelectedRange: bounds only, the editing flag is excluded
range_eq(a, b) ==
    /\ a.row_start = b.row_start
    /\ a.row_end = b.row_end
    /\ a.col_start = b.col_start
    /\ a.col_end = b.col_end

set_editing(r, is_editing) ==
    IF is_editing THEN [r EXCEPT !.is_editing = is_single_cell(r)] ELSE r

\* the two ifs of swap_col run one after the other (there is no else)
swap_col(r, col1_idx, col2_idx) ==
    IF ~is_single_cell(r) THEN r
    ELSE LET r1 == IF r.col_start = col1_idx
                   THEN [r EXCEPT !.col_start = col2_idx, !.col_end = col2_idx]
                   ELSE r
         IN  IF r1.col_start = col2_idx
             THEN [r1 EXCEPT !.col_start = col1_idx, !.col_end = col1_idx]
             ELSE r1

stretch_to(r, row_idx, col_idx) ==
    LET r1 == IF row_idx > r.row_end THEN [r EXCEPT !.row_end = row_idx] ELSE r
        r2 == IF row_idx < r1.row_start THEN [r1 EXCEPT !.row_start = row_idx] ELSE r1
        r3 == IF col_idx > r2.col_end THEN [r2 EXCEPT !.col_end = col_idx] ELSE r2
        r4 == IF col_idx < r3.col_start THEN [r3 EXCEPT !.col_start = col_idx] ELSE r3
    IN  IF ~is_single_cell(r4) THEN [r4 EXCEPT !.is_editing = FALSE] ELSE r4

stretch_multi_row(r, row_idx, col_count) ==
    LET r1 == IF row_idx < r.row_start THEN [r EXCEPT !.row_start = row_idx]
              ELSE IF row_idx > r.row_end THEN [r EXCEPT !.row_end = row_idx]
              ELSE r
    IN  [r1 EXCEPT !.col_start = 0, !.col_end = col_count]

contains(r, row_idx, col_idx) ==
    /\ row_idx >= r.row_start
    /\ row_idx <= r.row_end
    /\ col_idx >= r.col_start
    /\ col_idx <= r.col_end

contains_col(r, col_idx) == col_idx >= r.col_start /\ col_idx <= r.col_end

contains_row(r, row_idx) == row_idx >= r.row_start /\ row_idx <= r.row_end

\* a mutation of move_left: the right edge follows with Shift too
move_left_both(r, expand) ==
    IF r.col_start > 0
    THEN [r EXCEPT !.col_start = r.col_start - 1, !.col_end = r.col_end - 1]
    ELSE r

move_left(r, expand) ==
    IF r.col_start > 0
    THEN LET r1 == [r EXCEPT !.col_start = r.col_start - 1]
         IN  IF ~expand THEN [r1 EXCEPT !.col_end = r1.col_end - 1] ELSE r1
    ELSE r

\* a mutation of move_right: without Shift only the left edge moves
move_right_start_only(r, expand, col_count) ==
    IF r.col_end < col_count - 1
    THEN IF ~expand THEN [r EXCEPT !.col_start = r.col_start + 1]
         ELSE [r EXCEPT !.col_end = r.col_end + 1]
    ELSE r

move_right(r, expand, col_count) ==
    IF r.col_end < col_count - 1
    THEN LET r1 == [r EXCEPT !.col_end = r.col_end + 1]
         IN  IF ~expand THEN [r1 EXCEPT !.col_start = r1.col_start + 1] ELSE r1
    ELSE r

\* a mutation of move_up: saturating subtraction in place of the guard
move_up_unguarded(r, expand) ==
    IF ~expand
    THEN [r EXCEPT !.row_start = SatSub1(r.row_start), !.row_end = SatSub1(r.row_end)]
    ELSE [r EXCEPT !.row_start = SatSub1(r.row_start)]

move_up(r, expand) ==
    IF r.row_start > 0
    THEN LET r1 == [r EXCEPT !.row_start = r.row_start - 1]
         IN  IF ~expand THEN [r1 EXCEPT !.row_end = r1.row_end - 1] ELSE r1
    ELSE r

move_down(r, expand, row_count) ==
    IF r.row_end < row_count - 1
    THEN LET r1 == [r EXCEPT !.row_end = r.row_end + 1]
         IN  IF ~expand THEN [r1 EXCEPT !.row_start = r1.row_start + 1] ELSE r1
    ELSE r

width(r) == r.col_end - r.col_start + 1

height(r) == r.row_end - r.row_start + 1

\* SelectedRange::ordered: the rectangle spanned by two cells
ordered(row1, col1, row2, col2) ==
    [row_start |-> Min2(row1, row2), row_end |-> Max2(row1, row2),
     col_start |-> Min2(col1, col2), col_end |-> Max2(col1, col2),
     is_editing |-> FALSE]

\* ------------------------------------------------------------------------
\* Text: a string is a sequence of characters
\* ------------------------------------------------------------------------

SP == " "

TAB == "\t"

NL == "\n"

Whitespace == {SP, TAB, NL}

\* str::split(sep): the pieces between separators; never an empty list
RECURSIVE Split(_, _)
Split(t, sep) ==
    IF \E k \in 1..Len(t) : t[k] = sep
    THEN LET k == CHOOSE n \in 1..Len(t) :
                      t[n] = sep /\ \A m \in 1..(n - 1) : t[m] # sep
         IN  <<SubSeq(t, 1, k - 1)>> \o Split(SubSeq(t, k + 1, Len(t)), sep)
    ELSE <<t>>

RECURSIVE TrimStart(_)
TrimStart(t) ==
    IF t # <<>> /\ Head(t) \in Whitespace THEN TrimStart(Tail(t)) ELSE t

RECURSIVE TrimEnd(_)
TrimEnd(t) ==
    IF t # <<>> /\ t[Len(t)] \in Whitespace
    THEN TrimEnd(SubSeq(t, 1, Len(t) - 1))
    ELSE t

\* str::trim
Trim(t) == TrimEnd(TrimStart(t))

\* ------------------------------------------------------------------------
\* Variant (rvariant): the typed cell value
\* ------------------------------------------------------------------------

Digits == {"1"}

VEmpty == [ty |-> "Empty", s |-> <<>>]

VStr(t) == [ty |-> "Str", s |-> t]

VU32(t) == [ty |-> "U32", s |-> t]

IsNumber(t) == t # <<>> /\ \A k \in 1..Len(t) : t[k] \in Digits

\* Variant::from_str(text, ty): best-effort conversion to the requested
\* type, the raw string when the text does not convert
VariantFromStr(t, ty) ==
    CASE ty = "Str" -> VStr(t)
      [] ty = "U32" -> IF IsNumber(t) THEN VU32(t) ELSE VStr(t)
      [] OTHER -> VEmpty

\* Variant::to_string
VariantToString(v) == v.s

\* Variant::is_empty
VariantIsEmpty(v) == v.ty = "Empty" \/ (v.ty = "Str" /\ v.s = <<>>)

\* ------------------------------------------------------------------------
\* CsvBackend (backends/csv.rs): row_uid vector and cell map
\* ------------------------------------------------------------------------

\* a mutation of RowUidAt: the index is taken one too far
RowUidAtNext(rows, monotonic_idx) ==
    IF monotonic_idx + 2 \in 1..Len(rows) THEN Some(rows[monotonic_idx + 2]) ELSE None

\* CsvBackend::row_uid
RowUidAt(rows, monotonic_idx) ==
    IF monotonic_idx + 1 \in 1..Len(rows) THEN Some(rows[monotonic_idx + 1]) ELSE None

\* CsvBackend::cell
CellAt(cellmap, coord) ==
    IF coord \in DOMAIN cellmap THEN Some(cellmap[coord]) ELSE None

\* CsvBackend::modify_one on the cell map: an empty value removes the cell,
\* any other value replaces the value of a cell that exists (and_modify)
modify_one(cellmap, coord, new_value) ==
    IF VariantIsEmpty(new_value)
    THEN [c \in DOMAIN cellmap \ {coord} |-> cellmap[c]]
    ELSE IF coord \in DOMAIN cellmap
         THEN [cellmap EXCEPT ![coord] = new_value]
         ELSE cellmap

\* CsvBackend::remove_rows on the row vector and on the cell map
remove_rows_uid(rows, row_ids) == SelectSeq(rows, LAMBDA id : id \notin row_ids)

remove_rows_cells(cellmap, row_ids) ==
    [c \in {d \in DOMAIN cellmap : d[1] \notin row_ids} |-> cellmap[c]]

\* Vec<UiColumn>::get(idx).map(|col| (col.col_uid, col.ty))
ColAt(cols, mono_col_idx) ==
    IF mono_col_idx + 1 \in 1..Len(cols) THEN Some(cols[mono_col_idx + 1]) ELSE None

\* ------------------------------------------------------------------------
\* Bounds of the frame model
\* ------------------------------------------------------------------------

\* frames (calls of TableView::show) explored from an initial state
MaxFrames == 3

\* rows the backend may hold (row creation on paste is cut off above it)
MaxRows == 5

\* largest row index the selection may reach by arrow keys
MaxSelRow == 3

\* the row count handed to move_down by handle_selections
HardcodedRowCount == 100

\* ------------------------------------------------------------------------
\* State
\* ------------------------------------------------------------------------

VARIABLES
    row_uid,                   \* CsvBackend.state.row_uid
    cells,                     \* CsvBackend.state.cells
    cells_updated,             \* CsvBackend.state.one_shot_flags.cells_updated
    columns,                   \* TableView.state.columns : Vec<UiColumn>
    selected_range,            \* TableView.state.selected_range
    last_pressed,              \* TableView.state.last_pressed
    about_to_paste_rows,       \* TableView.state.about_to_paste_rows
    pasting_block_width,       \* TableView.state.pasting_block_width
    pasting_block_with_holes,  \* TableView.state.pasting_block_with_holes
    create_rows_on_paste,      \* TableView.state.create_rows_on_paste
    fill_with_same_on_paste,   \* TableView.state.fill_with_same_on_paste
    create_adhoc_cols_on_paste,\* TableView.state.create_adhoc_cols_on_paste
    modal_open,                \* egui_modal::Modal open state ("table_view_modal")
    copied_text,               \* egui output: copied_text (the clipboard)
    copied_cells,              \* the cells read by the last Ctrl+C that copied
    modify_log,                \* modify_one calls made in the last frame
    prompt_shown,              \* the paste prompt was drawn in the last frame
    ev,                        \* the input of the last frame: its kind and text
    frames,                    \* frames shown so far
    call,                      \* the last SelectedRange method called directly
    required_columns,          \* CsvImporter.required_columns : RequiredColumns
    csv_columns,               \* the header record handed to CsvImporter::map_columns
    mapped_columns,            \* the result of RequiredColumns::map_columns
    csv_to_col_uid,            \* the result of CsvImporter::map_columns
    backend_columns,           \* VariantBackend.columns of the import target
    double_match_warnings,     \* warn!("Double match ...") raised by the last import
    row_order,                 \* VariantBackend.row_order : Vec<RowUid>
    next_row_uid,              \* VariantBackend.next_row_uid
    one_shot_flags,            \* VariantBackend.one_shot_flags
    one_shot_flags_delay,      \* VariantBackend.one_shot_flags_delay
    issued,                    \* the RowUids insert_row has returned so far
    archived,                  \* one_shot_flags_archive calls since row_set_updated was last raised
    is_read_only,              \* the backend's persistent_flags().is_read_only
    editable_cells,            \* Settings.editable_cells
    cell_when_editing,         \* State.cell_when_editing : Option<Variant>, the edit buffer
    save_cell_changes_and_deselect,     \* State.save_cell_changes_and_deselect
    discard_cell_changes_and_deselect,  \* State.discard_cell_changes_and_deselect
    edit_origin,               \* the cell whose value the open edit buffer was cloned from
    cell_data,                 \* VariantBackend.cell_data
    created,                   \* the last create_row call: its values and the RowUid returned
    column_default,            \* VariantBackend.columns: the default of each column that has one
    file,                      \* the arguments of CsvImporter::load: the lines of the file, max_lines
    config,                    \* the CsvImporterConfig handed to CsvImporter::load
    status,                    \* CsvImporter.state.status : IoStatus
    view_required_columns,     \* TableView.required_columns
    data_columns,              \* CsvBackend.state.columns, what used_columns() returns
    column_info_updated        \* CsvBackend.state.one_shot_flags.column_info_updated

backend_vars == <<row_uid, cells, cells_updated>>

view_vars ==
    <<columns, selected_range, last_pressed, about_to_paste_rows,
      pasting_block_width, pasting_block_with_holes, create_rows_on_paste,
      fill_with_same_on_paste, create_adhoc_cols_on_paste, modal_open,
      copied_text, copied_cells>>

trace_vars == <<modify_log, prompt_shown, ev, frames>>

import_vars ==
    <<required_columns, csv_columns, mapped_columns, csv_to_col_uid,
      backend_columns, double_match_warnings, column_default>>

variant_vars ==
    <<row_order, next_row_uid, one_shot_flags, one_shot_flags_delay, issued, archived,
      cell_data, created>>

load_vars == <<file, config, status>>

map_vars == <<view_required_columns, data_columns, column_info_updated>>

edit_vars ==
    <<cell_when_editing, save_cell_changes_and_deselect,
      discard_cell_changes_and_deselect, edit_origin>>

vars ==
    <<backend_vars, view_vars, trace_vars, call, import_vars, variant_vars, is_read_only,
      editable_cells, edit_vars, load_vars, map_vars>>

\* the state the per-frame handlers work on
Cur ==
    [row_uid |-> row_uid, cells |-> cells, cells_updated |-> cells_updated,
     selected_range |-> selected_range, last_pressed |-> last_pressed,
     about_to_paste_rows |-> about_to_paste_rows,
     pasting_block_width |-> pasting_block_width,
     pasting_block_with_holes |-> pasting_block_with_holes,
     create_rows_on_paste |-> create_rows_on_paste,
     fill_with_same_on_paste |-> fill_with_same_on_paste,
     create_adhoc_cols_on_paste |-> create_adhoc_cols_on_paste,
     modal_open |-> modal_open, copied_text |-> copied_text,
     copied_cells |-> copied_cells,
     modify_log |-> modify_log, prompt_shown |-> prompt_shown,
     is_read_only |-> is_read_only, editable_cells |-> editable_cells,
     cell_when_editing |-> cell_when_editing,
     save_cell_changes_and_deselect |-> save_cell_changes_and_deselect,
     discard_cell_changes_and_deselect |-> discard_cell_changes_and_deselect,
     edit_origin |-> edit_origin]

\* ------------------------------------------------------------------------
\* TableView::handle_key_input
\* ------------------------------------------------------------------------

\* the rows and columns of the selection that resolve, as Ctrl+C walks them
CopyRows(s) ==
    LET sel == Unwrap(s.selected_range)
    IN  SelectSeq([k \in 1..height(sel) |-> sel.row_start + k - 1],
                  LAMBDA r : IsSome(RowUidAt(s.row_uid, r)))

CopyCols(s) ==
    LET sel == Unwrap(s.selected_range)
    IN  SelectSeq([k \in 1..width(sel) |-> sel.col_start + k - 1],
                  LAMBDA c : IsSome(ColAt(columns, c)))

\* the text of one cell: its string, nothing for a cell without a value
CopyCell(s, mono_row_idx, mono_col_idx) ==
    LET coord == <<Unwrap(RowUidAt(s.row_uid, mono_row_idx)),
                   Unwrap(ColAt(columns, mono_col_idx)).col_uid>>
        cell == CellAt(s.cells, coord)
    IN  IF IsSome(cell) THEN VariantToString(Unwrap(cell)) ELSE <<>>

RECURSIVE CopyRowText(_, _, _)
CopyRowText(s, mono_row_idx, cols) ==
    IF cols = <<>> THEN <<>>
    ELSE CopyCell(s, mono_row_idx, Head(cols))
         \o (IF Head(cols) # Unwrap(s.selected_range).col_end THEN <<TAB>> ELSE <<>>)
         \o CopyRowText(s, mono_row_idx, Tail(cols))

RECURSIVE CopyText(_, _)
CopyText(s, rows) ==
    IF rows = <<>> THEN <<>>
    ELSE CopyRowText(s, Head(rows), CopyCols(s))
         \o (IF Head(rows) # Unwrap(s.selected_range).row_end THEN <<NL>> ELSE <<>>)
         \o CopyText(s, Tail(rows))

\* the cells Ctrl+C reads, row by row (None for a cell without a value),
\* and the types of the columns it reads them from
CopySource(s) ==
    [vals |->
        [i \in 1..Len(CopyRows(s)) |->
            [j \in 1..Len(CopyCols(s)) |->
                CellAt(s.cells,
                       <<Unwrap(RowUidAt(s.row_uid, CopyRows(s)[i])),
                         Unwrap(ColAt(columns, CopyCols(s)[j])).col_uid>>)]],
     tys |-> [j \in 1..Len(CopyCols(s)) |-> Unwrap(ColAt(columns, CopyCols(s)[j])).ty]]

\* Key::Enter: no cell is ever being edited (edit mode is off by
\* Settings::default), so the key drops the selection
\* a mutation of EnterPressed: Enter drops the selection while a cell is
\* being edited too
EnterDropsSelection(s, i) ==
    IF i.kind \in {"enter", "ctrl_enter"}
    THEN [s EXCEPT !.selected_range = None, !.last_pressed = None]
    ELSE s

EnterPressed(s, i) ==
    IF i.kind \in {"enter", "ctrl_enter"}
    THEN IF IsSome(s.cell_when_editing)
         THEN [s EXCEPT !.save_cell_changes_and_deselect = TRUE]
         ELSE [s EXCEPT !.selected_range = None, !.last_pressed = None]
    ELSE s

\* Key::Escape, likewise
EscapePressed(s, i) ==
    IF i.kind = "escape"
    THEN IF IsSome(s.cell_when_editing)
         THEN [s EXCEPT !.discard_cell_changes_and_deselect = TRUE]
         ELSE [s EXCEPT !.selected_range = None, !.last_pressed = None]
    ELSE s

\* Ctrl+C: the text is put on the clipboard unless it is empty
CopyPressed(s, i) ==
    IF i.kind = "ctrl_c" /\ IsSome(s.selected_range) /\ CopyText(s, CopyRows(s)) # <<>>
    THEN [s EXCEPT !.copied_text = CopyText(s, CopyRows(s)),
                   !.copied_cells = CopySource(s)]
    ELSE s

handle_key_input(s, i) == CopyPressed(EscapePressed(EnterPressed(s, i), i), i)

\* ------------------------------------------------------------------------
\* TableView::paste_block
\* ------------------------------------------------------------------------

RECURSIVE ApplyWrites(_, _)
ApplyWrites(cellmap, writes) ==
    IF writes = <<>> THEN cellmap
    ELSE ApplyWrites(modify_one(cellmap, Head(writes).coord, Head(writes).value),
                     Tail(writes))

\* rows created by create_rows_on_paste
RowsToCreate(s) ==
    LET sel == Unwrap(s.selected_range)
    IN  IF s.create_rows_on_paste /\ Len(s.about_to_paste_rows) > height(sel)
        THEN Len(s.about_to_paste_rows) - height(sel)
        ELSE 0

\* CsvBackend::create_row(HashMap::new()) called n times: the new uid is the
\* length of the row vector, no cell is inserted
CreatedUids(rows, n) == [k \in 1..n |-> Len(rows) + k - 1]

\* a mutation of CycleAt: the iterator repeats its first element
CycleFirst(seq, k) == seq[1]

\* Iterator::cycle: the k-th element (from 1) of the repeated sequence
CycleAt(seq, k) == seq[((k - 1) % Len(seq)) + 1]

\* row_ids: the row uids of the selection's rows, then the created rows
PasteRowIds(s) ==
    [k \in 1..height(Unwrap(s.selected_range)) |->
        RowUidAt(s.row_uid, k - 1 + Unwrap(s.selected_range).row_start)]
    \o [k \in 1..RowsToCreate(s) |-> Some(CreatedUids(s.row_uid, RowsToCreate(s))[k])]

\* col_ids: uid and type of the selection's columns
PasteColIds(s) ==
    [k \in 1..width(Unwrap(s.selected_range)) |->
        ColAt(columns, k - 1 + Unwrap(s.selected_range).col_start)]

\* the rows the zip of row_ids with the block (cycled or not) visits
PasteRowCount(s) ==
    IF s.about_to_paste_rows = <<>> THEN 0
    ELSE IF s.fill_with_same_on_paste THEN Len(PasteRowIds(s))
    ELSE Min2(Len(PasteRowIds(s)), Len(s.about_to_paste_rows))

\* the block row zipped with row i
PasteRow(s, i) ==
    IF s.fill_with_same_on_paste THEN CycleAt(s.about_to_paste_rows, i)
    ELSE s.about_to_paste_rows[i]

\* a mutation of PasteWriteAt: every row of the block is cycled over the
\* columns of the selection whatever fill_with_same_on_paste says
PasteWriteAtCycled(s, i, j) ==
    IF /\ IsSome(PasteRowIds(s)[i])
       /\ IsSome(PasteColIds(s)[j])
    THEN Some([coord |-> <<Unwrap(PasteRowIds(s)[i]), Unwrap(PasteColIds(s)[j]).col_uid>>,
               value |-> VariantFromStr(CycleAt(PasteRow(s, i), j),
                                        Unwrap(PasteColIds(s)[j]).ty)])
    ELSE None

\* the modify_one call for row i, column j of the zip, if there is one
PasteWriteAt(s, i, j) ==
    IF /\ IsSome(PasteRowIds(s)[i])
       /\ IsSome(PasteColIds(s)[j])
       /\ (s.fill_with_same_on_paste \/ j <= Len(PasteRow(s, i)))
    THEN Some([coord |-> <<Unwrap(PasteRowIds(s)[i]), Unwrap(PasteColIds(s)[j]).col_uid>>,
               value |-> VariantFromStr(
                             IF s.fill_with_same_on_paste
                             THEN CycleAt(PasteRow(s, i), j)
                             ELSE PasteRow(s, i)[j],
                             Unwrap(PasteColIds(s)[j]).ty)])
    ELSE None

\* the modify_one calls of paste_block, in call order
PasteWrites(s) ==
    LET W == width(Unwrap(s.selected_range))
        all == SelectSeq([n \in 1..(PasteRowCount(s) * W) |->
                             PasteWriteAt(s, ((n - 1) \div W) + 1, ((n - 1) % W) + 1)],
                         LAMBDA w : IsSome(w))
    IN  [n \in 1..Len(all) |-> Unwrap(all[n])]

paste_block(s) ==
    IF ~IsSome(s.selected_range) THEN s
    ELSE [s EXCEPT
            !.row_uid = @ \o CreatedUids(s.row_uid, RowsToCreate(s)),
            !.cells = ApplyWrites(@, PasteWrites(s)),
            !.cells_updated = [n \in 1..Len(PasteWrites(s)) |-> PasteWrites(s)[n].coord],
            !.modify_log = @ \o PasteWrites(s),
            !.about_to_paste_rows = <<>>]

\* ------------------------------------------------------------------------
\* TableView::handle_paste
\* ------------------------------------------------------------------------

\* text.split('\n'), each row split('\t'), each cell trimmed
ParseBlock(text) ==
    LET lines == Split(text, NL)
    IN  [r \in 1..Len(lines) |->
            LET cols == Split(lines[r], TAB)
            IN  [c \in 1..Len(cols) |-> Trim(cols[c])]]

\* the fold over tuple_windows of the row lengths: the accumulator sums
\* l1 - l2, the width is overwritten with l1.max(l2) at every window
RECURSIVE FoldWindows(_, _, _, _)
FoldWindows(lens, k, acc, w) ==
    IF k >= Len(lens) THEN [acc |-> acc, width |-> w]
    ELSE FoldWindows(lens, k + 1, acc + lens[k] - lens[k + 1],
                     Max2(lens[k], lens[k + 1]))

\* the row lengths of a block
RowLengths(block) == [r \in 1..Len(block) |-> Len(block[r])]

\* pasting_block_width: rows[0].len(), overwritten by the fold
BlockWidth(block) == FoldWindows(RowLengths(block), 1, 0, Len(block[1])).width

\* is_equal_lengths: the fold's sum is 0
IsEqualLengths(block) == FoldWindows(RowLengths(block), 1, 0, Len(block[1])).acc = 0

\* selection_is_exact
SelectionIsExact(sel, block) ==
    /\ Len(block) = height(sel)
    /\ BlockWidth(block) = width(sel)
    /\ IsEqualLengths(block)

\* a mutation of PasteIntoSelection: the selection is not looked at, the
\* block is always kept and the prompt opened
PasteIntoSelectionStoring(s, block) ==
    [s EXCEPT !.about_to_paste_rows = block, !.modal_open = TRUE]

\* the branch on the selection: an exact fit is pasted, any other block
\* is kept and the prompt opened; without a selection nothing more happens
PasteIntoSelection(s, block) ==
    IF ~IsSome(s.selected_range) THEN s
    ELSE IF SelectionIsExact(Unwrap(s.selected_range), block)
         THEN paste_block([s EXCEPT !.about_to_paste_rows = block])
         ELSE [s EXCEPT !.about_to_paste_rows = block,
                        !.create_rows_on_paste = FALSE,
                        !.fill_with_same_on_paste = FALSE,
                        !.create_adhoc_cols_on_paste = FALSE,
                        !.modal_open = TRUE]

\* handle_paste once the text is split into rows
PasteParsed(s, block) ==
    IF block = <<>> THEN s
    ELSE PasteIntoSelection(
             [s EXCEPT !.pasting_block_width = BlockWidth(block),
                       !.pasting_block_with_holes = ~IsEqualLengths(block)],
             block)

handle_paste(s, text) == PasteParsed(s, ParseBlock(text))

\* ------------------------------------------------------------------------
\* TableView::handle_paste_continue
\* ------------------------------------------------------------------------

\* the body of modal.show runs: a block is pending, there is a selection
\* and the modal is open
PromptVisible(s) ==
    /\ s.about_to_paste_rows # <<>>
    /\ IsSome(s.selected_range)
    /\ s.modal_open

CreateRowsOffered(s) ==
    height(Unwrap(s.selected_range)) < Len(s.about_to_paste_rows)

FillOffered(s) ==
    \/ height(Unwrap(s.selected_range)) > Len(s.about_to_paste_rows)
    \/ width(Unwrap(s.selected_range)) > s.pasting_block_width

AdhocColsOffered(s) ==
    width(Unwrap(s.selected_range)) < s.pasting_block_width

\* the checkboxes of the prompt, each drawn only when it is offered
PromptCheckboxes(s, i) ==
    CASE i.kind = "toggle_create_rows" /\ CreateRowsOffered(s) ->
             [s EXCEPT !.create_rows_on_paste = ~@]
      [] i.kind = "toggle_fill" /\ FillOffered(s) ->
             [s EXCEPT !.fill_with_same_on_paste = ~@]
      [] i.kind = "toggle_adhoc" /\ AdhocColsOffered(s) ->
             [s EXCEPT !.create_adhoc_cols_on_paste = ~@]
      [] OTHER -> s

\* the Close and Paste buttons (a clicked modal button closes the modal)
PromptButtons(s, i) ==
    CASE i.kind = "close" ->
             [s EXCEPT !.about_to_paste_rows = <<>>, !.modal_open = FALSE]
      [] i.kind = "paste_btn" -> [paste_block(s) EXCEPT !.modal_open = FALSE]
      [] OTHER -> s

\* Escape and Ctrl+Enter inside the prompt
PromptKeys(s, i) ==
    CASE i.kind = "escape" ->
             [s EXCEPT !.about_to_paste_rows = <<>>, !.modal_open = FALSE]
      [] i.kind = "ctrl_enter" -> paste_block(s)
      [] OTHER -> s

handle_paste_continue(s, i) ==
    IF ~PromptVisible(s) THEN s
    ELSE PromptKeys(
             PromptButtons(
                 PromptCheckboxes([s EXCEPT !.prompt_shown = TRUE], i), i), i)

\* ------------------------------------------------------------------------
\* TableView::add_table_rows and TableView::handle_selections
\* ------------------------------------------------------------------------

IsArrow(i) == i.kind \in {"left", "right", "up", "down"}

\* the arrow-key part of handle_selections
MoveSelection(s, i) ==
    IF IsArrow(i) /\ IsSome(s.selected_range)
    THEN LET r == Unwrap(s.selected_range)
             moved == CASE i.kind = "left" -> move_left(r, i.shift)
                        [] i.kind = "right" -> move_right(r, i.shift, Len(columns))
                        [] i.kind = "up" -> move_up(r, i.shift)
                        [] OTHER -> move_down(r, i.shift, HardcodedRowCount)
         IN  IF ~range_eq(r, moved)
             THEN [s EXCEPT !.selected_range = Some(moved),
                            !.save_cell_changes_and_deselect = TRUE,
                            !.last_pressed = Some(<<moved.row_start, moved.col_start>>)]
             ELSE [s EXCEPT !.selected_range = Some(moved)]
    ELSE s

\* SelectionEvent::Pressed(row, col)
Pressed(s, i) ==
    IF s.last_pressed = Some(<<i.row, i.col>>) THEN s
    ELSE IF IsSome(s.selected_range)
         THEN IF i.shift THEN s
              ELSE IF is_single_cell(Unwrap(s.selected_range))
                   THEN [s EXCEPT !.save_cell_changes_and_deselect = TRUE,
                                  !.last_pressed = Some(<<i.row, i.col>>)]
                   ELSE [s EXCEPT !.selected_range = None,
                                  !.last_pressed = Some(<<i.row, i.col>>)]
         ELSE [s EXCEPT !.last_pressed = Some(<<i.row, i.col>>)]

\* SelectionEvent::Released(row, col)
Released(s, i) ==
    IF ~IsSome(s.last_pressed) THEN s
    ELSE LET prev == Unwrap(s.last_pressed)
             new_selected_range == ordered(prev[1], prev[2], i.row, i.col)
         IN  IF ~IsSome(s.selected_range)
                \/ ~range_eq(Unwrap(s.selected_range), new_selected_range)
             THEN [s EXCEPT !.selected_range = Some(new_selected_range)]
             ELSE s

handle_selections(s, i) ==
    LET s1 == MoveSelection(s, i)
    IN  CASE i.kind = "press" -> Pressed(s1, i)
          [] i.kind = "release" -> Released(s1, i)
          [] OTHER -> s1

\* the trash button of the tool column of row i.row
TrashRow(s, i) ==
    IF i.kind = "trash" /\ IsSome(RowUidAt(s.row_uid, i.row))
    THEN [s EXCEPT
            !.row_uid = remove_rows_uid(@, {Unwrap(RowUidAt(s.row_uid, i.row))}),
            !.cells = remove_rows_cells(@, {Unwrap(RowUidAt(s.row_uid, i.row))})]
    ELSE s

\* the cell the editor branch of the row loop is taken for, if any: cells
\* are editable, the selection equals SelectedRange::single(row_idx, col_idx)
\* of a rendered row and of a column that is neither the tool column nor
\* read-only, and the backend has a value for the cell; rows maps the row
\* index to the uid the loop reads
EditCoord(s, rows) ==
    IF /\ s.editable_cells
       /\ IsSome(s.selected_range)
       /\ is_single_cell(Unwrap(s.selected_range))
       /\ IsSome(RowUidAt(rows, Unwrap(s.selected_range).row_start))
       /\ IsSome(ColAt(columns, Unwrap(s.selected_range).col_start))
    THEN IF /\ ~Unwrap(ColAt(columns, Unwrap(s.selected_range).col_start)).is_tool
            /\ ~Unwrap(ColAt(columns, Unwrap(s.selected_range).col_start)).read_only
            /\ <<Unwrap(RowUidAt(rows, Unwrap(s.selected_range).row_start)),
                 Unwrap(ColAt(columns, Unwrap(s.selected_range).col_start)).col_uid>>
                   \in DOMAIN s.cells
         THEN Some(<<Unwrap(RowUidAt(rows, Unwrap(s.selected_range).row_start)),
                     Unwrap(ColAt(columns, Unwrap(s.selected_range).col_start)).col_uid>>)
         ELSE None
    ELSE None

\* the column type of the selected cell
EditColTy(s) == Unwrap(ColAt(columns, Unwrap(s.selected_range).col_start)).ty

\* cell_when_editing once the branch is entered: a clone of the cell value
\* on the first pass
EditBuffer(s, coord) ==
    IF IsSome(s.cell_when_editing) THEN Unwrap(s.cell_when_editing) ELSE s.cells[coord]

\* show_cell_editor on the buffer: the text editor replaces the text of a
\* Str, the drag value the number of a U32; the widget has no focus on the
\* first pass
EditorTyped(buffer, first_pass, i) ==
    IF i.kind = "type" /\ ~first_pass
    THEN CASE buffer.ty = "Str" -> VStr(i.text)
           [] buffer.ty = "U32" -> IF IsNumber(i.text) THEN VU32(i.text) ELSE buffer
           [] OTHER -> buffer
    ELSE buffer

\* the value show_cell_editor returns: on lost focus the text converted to
\* the type of the column, or the number; at once for any other variant
show_cell_editor(buffer, first_pass, ty, i) ==
    CASE buffer.ty = "Str" ->
            IF i.kind = "blur" /\ ~first_pass THEN Some(VariantFromStr(buffer.s, ty)) ELSE None
      [] buffer.ty = "U32" ->
            IF i.kind = "blur" /\ ~first_pass THEN Some(buffer) ELSE None
      [] OTHER -> Some(buffer)

\* if let Some(changed_value): the value is written when it differs from
\* the cell, the buffer and the selection are dropped
CommitEdit(s, coord, changed_value) ==
    IF IsSome(changed_value)
    THEN IF Unwrap(changed_value) # s.cells[coord]
         THEN [s EXCEPT
                 !.cells = modify_one(@, coord, Unwrap(changed_value)),
                 !.cells_updated = <<coord>>,
                 !.modify_log = Append(@, [coord |-> coord, value |-> Unwrap(changed_value)]),
                 !.cell_when_editing = None,
                 !.selected_range = None]
         ELSE [s EXCEPT !.cell_when_editing = None, !.selected_range = None]
    ELSE s

\* save_cell_changes_and_deselect or discard_cell_changes_and_deselect is
\* set: the selection is dropped, the buffer is taken and written (save) or
\* dropped (discard)
EditDeselect(s, coord) ==
    IF s.save_cell_changes_and_deselect
    THEN CommitEdit([s EXCEPT !.selected_range = None, !.last_pressed = None,
                              !.save_cell_changes_and_deselect = FALSE,
                              !.cell_when_editing = None],
                    coord, Some(EditBuffer(s, coord)))
    ELSE [s EXCEPT !.selected_range = None, !.last_pressed = None,
                   !.cell_when_editing = None,
                   !.discard_cell_changes_and_deselect = FALSE]

\* the editor is shown on the buffer
EditShow(s, coord, i) ==
    CommitEdit(
        [s EXCEPT !.cell_when_editing =
             Some(EditorTyped(EditBuffer(s, coord), ~IsSome(s.cell_when_editing), i)),
                  !.edit_origin = IF IsSome(s.cell_when_editing) THEN @ ELSE Some(coord)],
        coord,
        show_cell_editor(
            EditorTyped(EditBuffer(s, coord), ~IsSome(s.cell_when_editing), i),
            ~IsSome(s.cell_when_editing), EditColTy(s), i))

\* the editor branch of the row loop
EditAt(s, coord, i) ==
    IF s.save_cell_changes_and_deselect \/ s.discard_cell_changes_and_deselect
    THEN EditDeselect(s, coord)
    ELSE EditShow(s, coord, i)

EditCell(s, rows, i) ==
    IF IsSome(EditCoord(s, rows)) THEN EditAt(s, Unwrap(EditCoord(s, rows)), i) ELSE s

\* the "Add" button of a cell without a value (add_and_select_missing_cell):
\* the cell is selected and created with an empty string
AddMissingCell(s, i) ==
    IF /\ i.kind = "add_cell"
       /\ s.editable_cells
       /\ IsSome(RowUidAt(s.row_uid, i.row))
       /\ IsSome(ColAt(columns, i.col))
    THEN IF /\ ~Unwrap(ColAt(columns, i.col)).is_tool
            /\ <<Unwrap(RowUidAt(s.row_uid, i.row)), Unwrap(ColAt(columns, i.col)).col_uid>>
                   \notin DOMAIN s.cells
         THEN [s EXCEPT
                 !.selected_range = Some(single_cell(i.row, i.col)),
                 !.cells = [c \in DOMAIN @ \cup
                                {<<Unwrap(RowUidAt(s.row_uid, i.row)),
                                   Unwrap(ColAt(columns, i.col)).col_uid>>} |->
                               IF c \in DOMAIN @ THEN @[c] ELSE VStr(<<>>)],
                 !.cells_updated = Append(@, <<Unwrap(RowUidAt(s.row_uid, i.row)),
                                               Unwrap(ColAt(columns, i.col)).col_uid>>)]
         ELSE s
    ELSE s

\* the frame's click comes before the selected cell in the order of the
\* row loop (rows top down, the columns of a row left to right)
ClickedBeforeSelected(s, i) ==
    /\ IsSome(s.selected_range)
    /\ \/ i.row < Unwrap(s.selected_range).row_start
       \/ i.row = Unwrap(s.selected_range).row_start
          /\ i.col < Unwrap(s.selected_range).col_start

\* the row loop of add_table_rows, in the order the cells are drawn: a row
\* removed by its trash button shifts the rows drawn after it, and its own
\* cells are gone when they are drawn
RowLoop(s, i) ==
    CASE i.kind = "trash" ->
            IF IsSome(s.selected_range) /\ i.row < Unwrap(s.selected_range).row_start
            THEN EditCell(TrashRow(s, i), TrashRow(s, i).row_uid, i)
            ELSE IF IsSome(s.selected_range) /\ i.row = Unwrap(s.selected_range).row_start
                 THEN EditCell(TrashRow(s, i), s.row_uid, i)
                 ELSE TrashRow(EditCell(s, s.row_uid, i), i)
      [] i.kind = "add_cell" ->
            IF ClickedBeforeSelected(s, i)
            THEN EditCell(AddMissingCell(s, i), s.row_uid, i)
            ELSE AddMissingCell(EditCell(s, s.row_uid, i), i)
      [] OTHER -> EditCell(s, s.row_uid, i)

\* add_table_rows: the row loop, then the selection events of the frame
add_table_rows(s, i) == handle_selections(RowLoop(s, i), i)

\* ------------------------------------------------------------------------
\* TableView::show: one frame with input i
\* ------------------------------------------------------------------------

In(kind) == [kind |-> kind, text |-> <<>>, row |-> 0, col |-> 0, shift |-> FALSE]

\* CsvBackend::poll resets the one-shot flags at the start of the frame
poll(s) == [s EXCEPT !.cells_updated = <<>>, !.modify_log = <<>>,
                     !.prompt_shown = FALSE]

\* top_strip_ui: the "Add row" button is drawn, and can be clicked, only
\* with editable cells on a backend that is not read-only; Shift+R adds a
\* row too; create_row gets the columns' default values, none here
top_strip_ui(s, i) ==
    IF \/ (s.editable_cells /\ ~s.is_read_only) /\ i.kind = "add_row"
       \/ i.kind = "shift_r"
    THEN [s EXCEPT !.row_uid = s.row_uid \o CreatedUids(s.row_uid, 1)]
    ELSE s

\* handle_paste runs on the frame's paste event, if there is one
PasteStep(s, i) == IF i.kind = "paste" THEN handle_paste(s, i.text) ELSE s

show(s, i) ==
    add_table_rows(
        handle_paste_continue(
            PasteStep(handle_key_input(top_strip_ui(poll(s), i), i), i), i), i)

Frame(i) ==
    /\ frames < MaxFrames
    /\ \E n \in {show(Cur, i)} :
        /\ Len(n.row_uid) <= MaxRows
        /\ IsSome(n.selected_range) => Unwrap(n.selected_range).row_end <= MaxSelRow
        /\ row_uid' = n.row_uid
        /\ cells' = n.cells
        /\ cells_updated' = n.cells_updated
        /\ selected_range' = n.selected_range
        /\ last_pressed' = n.last_pressed
        /\ about_to_paste_rows' = n.about_to_paste_rows
        /\ pasting_block_width' = n.pasting_block_width
        /\ pasting_block_with_holes' = n.pasting_block_with_holes
        /\ create_rows_on_paste' = n.create_rows_on_paste
        /\ fill_with_same_on_paste' = n.fill_with_same_on_paste
        /\ create_adhoc_cols_on_paste' = n.create_adhoc_cols_on_paste
        /\ modal_open' = n.modal_open
        /\ copied_text' = n.copied_text
        /\ copied_cells' = n.copied_cells
        /\ modify_log' = n.modify_log
        /\ prompt_shown' = n.prompt_shown
        /\ cell_when_editing' = n.cell_when_editing
        /\ save_cell_changes_and_deselect' = n.save_cell_changes_and_deselect
        /\ discard_cell_changes_and_deselect' = n.discard_cell_changes_and_deselect
        /\ edit_origin' = IF IsSome(n.cell_when_editing) THEN n.edit_origin ELSE None
        /\ ev' = [kind |-> i.kind, text |-> i.text]
        /\ frames' = frames + 1
        /\ UNCHANGED <<columns, call, import_vars, variant_vars, is_read_only, editable_cells,
                       load_vars, map_vars>>

\* ------------------------------------------------------------------------
\* Inputs
\* ------------------------------------------------------------------------

\* clipboard texts pasted from outside
PasteTexts ==
    { <<>>,                                            \* the empty string
      <<"a">>,                                         \* 1x1
      <<SP, "a", SP>>,                                 \* 1x1 with padding
      <<"b", TAB, "1">>,                               \* 1x2
      <<"a", NL, "b">>,                                \* 2x1
      <<"b", TAB, "1", NL, "a", TAB, "a">>,            \* 2x2
      <<"a", NL, "b", NL, "b">>,                       \* 3x1
      <<"a", TAB, "1", NL, "b">>,                      \* row lengths 2,1
      <<"b", TAB, "1", NL, "a", NL, "a", TAB, "1">>,   \* row lengths 2,1,2
      <<"a", TAB, "1", TAB, "1", NL, "b", NL, "b">> }  \* row lengths 3,1,1

\* cells the table body renders: rows of the backend, columns of the view
RenderedRows == 0..(Len(row_uid) - 1)

RenderedCols == 0..(Len(columns) - 1)

PasteEvent == \E t \in PasteTexts : Frame([In("paste") EXCEPT !.text = t])

KeyEnter == Frame(In("enter"))

KeyEscape == Frame(In("escape"))

KeyCtrlEnter == Frame(In("ctrl_enter"))

KeyCtrlC == Frame(In("ctrl_c"))

ArrowKey ==
    \E k \in {"left", "right", "up", "down"}, sh \in BOOLEAN :
        Frame([In(k) EXCEPT !.shift = sh])

\* pointer events reach the table only while the prompt does not cover it
PointerPress ==
    /\ ~PromptVisible(Cur)
    /\ \E r \in RenderedRows, c \in RenderedCols, sh \in BOOLEAN :
           Frame([In("press") EXCEPT !.row = r, !.col = c, !.shift = sh])

PointerRelease ==
    /\ ~PromptVisible(Cur)
    /\ \E r \in RenderedRows, c \in RenderedCols :
           Frame([In("release") EXCEPT !.row = r, !.col = c])

ClickTrash ==
    /\ ~PromptVisible(Cur)
    /\ \E r \in RenderedRows : Frame([In("trash") EXCEPT !.row = r])

ClickClose == PromptVisible(Cur) /\ Frame(In("close"))

ClickPaste == PromptVisible(Cur) /\ Frame(In("paste_btn"))

ToggleCreateRows ==
    PromptVisible(Cur) /\ CreateRowsOffered(Cur) /\ Frame(In("toggle_create_rows"))

ToggleFillWithSame ==
    PromptVisible(Cur) /\ FillOffered(Cur) /\ Frame(In("toggle_fill"))

ToggleCreateAdhocCols ==
    PromptVisible(Cur) /\ AdhocColsOffered(Cur) /\ Frame(In("toggle_adhoc"))

\* a click where top_strip_ui draws "Add row"
ClickAddRow == ~PromptVisible(Cur) /\ Frame(In("add_row"))

KeyShiftR == Frame(In("shift_r"))

\* pasting what the last Ctrl+C put on the clipboard
PasteCopied ==
    /\ copied_text # <<>>
    /\ Frame([In("paste") EXCEPT !.text = copied_text])

Idx == 0..MaxIdx

Counts == 1..(MaxIdx + 1)

NoCall == [name |-> "new", a |-> 0, b |-> 0, flag |-> FALSE, pre |-> None]

Call(name, a, b, flag) ==
    [name |-> name, a |-> a, b |-> b, flag |-> flag, pre |-> selected_range]

\* ------------------------------------------------------------------------
\* Initial states
\* ------------------------------------------------------------------------

\* the view's column list after map_columns: the tool column first, then
\* the backend's columns
InitColumns ==
    << [col_uid |-> 0, ty |-> "Empty", is_tool |-> TRUE, read_only |-> FALSE],
       [col_uid |-> 0, ty |-> "Str", is_tool |-> FALSE, read_only |-> FALSE],
       [col_uid |-> 1, ty |-> "U32", is_tool |-> FALSE, read_only |-> FALSE] >>

\* a loaded table of three rows: load inserts no cell for an empty field
\* (cells (1, 0) and (2, 1)) and keeps the whitespace of a field
InitRowUid == <<0, 1, 2>>

InitCells ==
    (<<0, 0>> :> VStr(<<"a">>)) @@ (<<0, 1>> :> VU32(<<"1">>))
    @@ (<<1, 1>> :> VU32(<<"1">>))
    @@ (<<2, 0>> :> VStr(<<SP, "b">>))

NoEvent == [kind |-> "none", text |-> <<>>]

\* no importer at work: nothing required, nothing imported
NoImport ==
    /\ required_columns = <<>>
    /\ csv_columns = <<>>
    /\ mapped_columns = <<>>
    /\ csv_to_col_uid = <<>>
    /\ backend_columns = <<>>
    /\ double_match_warnings = 0
    /\ column_default = <<>>

InitViewState ==
    /\ row_uid = InitRowUid
    /\ cells = InitCells
    /\ cells_updated = <<>>
    /\ about_to_paste_rows = <<>>
    /\ pasting_block_width = 0
    /\ pasting_block_with_holes = FALSE
    /\ create_rows_on_paste = FALSE
    /\ fill_with_same_on_paste = FALSE
    /\ create_adhoc_cols_on_paste = FALSE
    /\ modal_open = FALSE
    /\ copied_text = <<>>
    /\ copied_cells = [vals |-> <<>>, tys |-> <<>>]
    /\ modify_log = <<>>
    /\ prompt_shown = FALSE
    /\ ev = NoEvent
    /\ frames = 0

\* OneShotFlags::default()
OneShotFlagsDefault ==
    [columns_reset |-> FALSE, row_set_updated |-> FALSE, cleared |-> FALSE]

\* VariantBackend::new
VariantBackendNew ==
    /\ row_order = <<>>
    /\ next_row_uid = 0
    /\ one_shot_flags = [OneShotFlagsDefault EXCEPT !.columns_reset = TRUE, !.row_set_updated = TRUE]
    /\ one_shot_flags_delay = OneShotFlagsDefault
    /\ issued = {}
    /\ archived = 0
    /\ cell_data = <<>>
    /\ created = None

\* CsvImporterConfig::default()
ConfigDefault ==
    [separator |-> "Auto", separator_u8 |-> ",", skip_first_rows |-> 0,
     has_headers |-> TRUE]

\* no file has been loaded: State::default() of the importer
NoLoad ==
    /\ file = [lines |-> <<>>, max_lines |-> None]
    /\ config = ConfigDefault
    /\ status = [kind |-> "Empty", line |-> 0]

\* a view without required columns over a backend without columns
NoMap ==
    /\ view_required_columns = <<>>
    /\ data_columns = <<>>
    /\ column_info_updated = FALSE

\* State::default(): no cell is being edited
NotEditing ==
    /\ cell_when_editing = None
    /\ edit_origin = None
    /\ save_cell_changes_and_deselect = FALSE
    /\ discard_cell_changes_and_deselect = FALSE

\* Settings::default(): cells are not editable
InitCommon ==
    /\ InitViewState
    /\ columns = InitColumns
    /\ NoImport
    /\ VariantBackendNew
    /\ NoLoad
    /\ NoMap
    /\ NotEditing
    /\ is_read_only = FALSE
    /\ editable_cells = FALSE

\* no selection yet, or the selection left by a press on one cell and a
\* release on a cell below / right of it, possibly followed by one Down
\* key (which handle_selections lets pass the last row)
Init ==
    /\ InitCommon
    /\ call = NoCall
    /\ \/ selected_range = None /\ last_pressed = None
       \/ \E r1 \in 0..Len(InitRowUid), r2 \in 0..Len(InitRowUid),
             c1 \in 0..(Len(InitColumns) - 1), c2 \in 0..(Len(InitColumns) - 1) :
              /\ r1 <= r2
              /\ c1 <= c2
              /\ last_pressed = Some(<<r1, c1>>)
              /\ selected_range = Some(ordered(r1, c1, r2, c2))

Next ==
    \/ PasteEvent
    \/ KeyEnter
    \/ KeyEscape
    \/ KeyCtrlEnter
    \/ ArrowKey
    \/ PointerPress
    \/ PointerRelease
    \/ ClickTrash
    \/ ClickClose
    \/ ClickPaste
    \/ ToggleCreateRows
    \/ ToggleFillWithSame
    \/ ToggleCreateAdhocCols

Spec == Init /\ [][Next]_vars

\* text typed into the cell editor
EditTexts == {<<>>, <<"b">>, <<"1">>}

TypeText == \E t \in EditTexts : Frame([In("type") EXCEPT !.text = t])

\* the cell editor loses the focus
Blur == Frame(In("blur"))

\* a click on the "Add" button of a cell without a value
ClickAdd ==
    /\ ~PromptVisible(Cur)
    /\ \E r \in RenderedRows, c \in RenderedCols : Frame([In("add_cell") EXCEPT !.row = r, !.col = c])

\* a press or a release without Shift
Click ==
    /\ ~PromptVisible(Cur)
    /\ \E r \in RenderedRows, c \in RenderedCols, k \in {"press", "release"} :
           Frame([In(k) EXCEPT !.row = r, !.col = c])

\* the columns of the view when the second backend column is auto-generated
ReadOnlyColumns == [InitColumns EXCEPT ![3].read_only = TRUE]

\* the loaded table with editable cells and cell (r, c) selected
Selecting(r, c) ==
    [editable_cells |-> TRUE, selected_range |-> Some(single_cell(r, c)),
     cells |-> InitCells]

\* a view with editable cells: no selection, or a single cell selected by a
\* click, with the editor not yet drawn or open on the value of the cell
InitEdit ==
    /\ InitViewState
    /\ columns \in {InitColumns, ReadOnlyColumns}
    /\ NoImport
    /\ VariantBackendNew
    /\ NoLoad
    /\ NoMap
    /\ is_read_only = FALSE
    /\ editable_cells = TRUE
    /\ call = NoCall
    /\ save_cell_changes_and_deselect = FALSE
    /\ discard_cell_changes_and_deselect = FALSE
    /\ \/ /\ selected_range = None
          /\ last_pressed = None
          /\ cell_when_editing = None
          /\ edit_origin = None
       \/ \E r \in 0..(Len(InitRowUid) - 1), c \in 0..(Len(InitColumns) - 1) :
              /\ last_pressed = Some(<<r, c>>)
              /\ selected_range = Some(single_cell(r, c))
              /\ \/ cell_when_editing = None /\ edit_origin = None
                 \/ /\ IsSome(EditCoord(Selecting(r, c), InitRowUid))
                    /\ cell_when_editing =
                           Some(InitCells[Unwrap(EditCoord(Selecting(r, c), InitRowUid))])
                    /\ edit_origin = EditCoord(Selecting(r, c), InitRowUid)

NextEdit ==
    \/ Click
    \/ ClickAdd
    \/ ClickTrash
    \/ KeyEnter
    \/ KeyEscape
    \/ ArrowKey
    \/ TypeText
    \/ Blur

SpecEdit == InitEdit /\ [][NextEdit]_vars

\* the view on a backend whose is_read_only flag is set
InitReadOnly ==
    /\ InitViewState
    /\ columns = InitColumns
    /\ NoImport
    /\ VariantBackendNew
    /\ NoLoad
    /\ NoMap
    /\ is_read_only = TRUE
    /\ editable_cells = TRUE
    /\ NotEditing
    /\ call = NoCall
    /\ \/ selected_range = None /\ last_pressed = None
       \/ \E r \in 0..(Len(InitRowUid) - 1), c \in 0..(Len(InitColumns) - 1) :
              /\ last_pressed = Some(<<r, c>>)
              /\ selected_range = Some(single_cell(r, c))

NextReadOnly == Next \/ ClickAddRow \/ KeyShiftR

SpecReadOnly == InitReadOnly /\ [][NextReadOnly]_vars

\* copy and paste of the clipboard only
NextCopy ==
    \/ KeyCtrlC
    \/ PasteCopied
    \/ ArrowKey
    \/ PointerPress
    \/ PointerRelease

SpecCopy == Init /\ [][NextCopy]_vars

\* ------------------------------------------------------------------------
\* SelectedRange driven directly: every public method, any arguments
\* ------------------------------------------------------------------------

InitSel ==
    /\ selected_range \in
          {Some(single_cell(r, c)) : r \in Idx, c \in Idx}
          \cup {Some(single_row(r, n)) : r \in Idx, n \in Counts}
          \cup {Some(rect(w, h)) : w \in Counts, h \in Counts}
    /\ call = NoCall
    /\ last_pressed = None
    /\ InitCommon

Apply(name, a, b, flag, result) ==
    /\ IsSome(selected_range)
    /\ selected_range' = Some(result)
    /\ call' = Call(name, a, b, flag)
    /\ UNCHANGED <<backend_vars, trace_vars, import_vars, variant_vars, is_read_only, editable_cells, edit_vars, load_vars, map_vars,
                   columns, last_pressed,
                   about_to_paste_rows, pasting_block_width,
                   pasting_block_with_holes, create_rows_on_paste,
                   fill_with_same_on_paste, create_adhoc_cols_on_paste,
                   modal_open, copied_text, copied_cells>>

SetEditing ==
    \E e \in BOOLEAN :
        Apply("set_editing", 0, 0, e, set_editing(Unwrap(selected_range), e))

SwapCol ==
    \E c1 \in Idx, c2 \in Idx :
        Apply("swap_col", c1, c2, FALSE, swap_col(Unwrap(selected_range), c1, c2))

StretchTo ==
    \E r \in Idx, c \in Idx :
        Apply("stretch_to", r, c, FALSE, stretch_to(Unwrap(selected_range), r, c))

StretchMultiRow ==
    \E r \in Idx, n \in Counts :
        Apply("stretch_multi_row", r, n, FALSE,
              stretch_multi_row(Unwrap(selected_range), r, n))

MoveLeft ==
    \E e \in BOOLEAN :
        Apply("move_left", 0, 0, e, move_left(Unwrap(selected_range), e))

MoveRight ==
    \E e \in BOOLEAN, n \in Counts :
        Apply("move_right", n, 0, e, move_right(Unwrap(selected_range), e, n))

MoveUp ==
    \E e \in BOOLEAN :
        Apply("move_up", 0, 0, e, move_up(Unwrap(selected_range), e))

MoveDown ==
    \E e \in BOOLEAN, n \in Counts :
        Apply("move_down", n, 0, e, move_down(Unwrap(selected_range), e, n))

NextSel ==
    \/ SetEditing
    \/ SwapCol
    \/ StretchTo
    \/ StretchMultiRow
    \/ MoveLeft
    \/ MoveRight
    \/ MoveUp
    \/ MoveDown

SpecSel == InitSel /\ [][NextSel]_vars

\* ------------------------------------------------------------------------
\* Claims on SelectedRange
\* ------------------------------------------------------------------------

\* C1: in every reachable SelectedRange, is_editing implies that the range
\* is a single cell (row_start = row_end and col_start = col_end).
C1_EditingImpliesSingleCell ==
    IsSome(selected_range) =>
        (Unwrap(selected_range).is_editing => is_single_cell(Unwrap(selected_range)))

\* the call was swap_col on a single cell, one argument being the cell's
\* column (A) and the other a different column (B)
SwapOfSelectedColumn ==
    /\ call.name = "swap_col"
    /\ IsSome(call.pre)
    /\ is_single_cell(Unwrap(call.pre))
    /\ call.a # call.b
    /\ Unwrap(call.pre).col_start \in {call.a, call.b}

SwapOther == IF Unwrap(call.pre).col_start = call.a THEN call.b ELSE call.a

\* C2: swapping the column A of a single-cell selection with another column
\* B, in either argument order, leaves a single cell at column B, same row.
C2_SwapFollowsSingleCell ==
    SwapOfSelectedColumn =>
        /\ IsSome(selected_range)
        /\ is_single_cell(Unwrap(selected_range))
        /\ Unwrap(selected_range).col_start = SwapOther
        /\ Unwrap(selected_range).row_start = Unwrap(call.pre).row_start

\* the call was swap_col on a multi-cell rectangle with exactly one of the
\* two swapped columns inside the rectangle's column span
SwapAcrossRectangle ==
    /\ call.name = "swap_col"
    /\ IsSome(call.pre)
    /\ ~is_single_cell(Unwrap(call.pre))
    /\ contains_col(Unwrap(call.pre), call.a) # contains_col(Unwrap(call.pre), call.b)

\* C3: a column swap with exactly one column inside a multi-cell rectangle
\* clears the selection.
C3_SwapClearsPartialRectangle ==
    SwapAcrossRectangle => selected_range = None

\* ------------------------------------------------------------------------
\* Claims on paste
\* ------------------------------------------------------------------------

\* the frame just shown received a paste event
PasteFrame == ev'.kind = "paste"

\* the block the paste event's text parses to
PastedBlock == ParseBlock(ev'.text)

EqualLengthRows(block) == \A r \in 1..Len(block) : Len(block[r]) = Len(block[1])

SameShape(block, sel) ==
    /\ Len(block) = height(sel)
    /\ EqualLengthRows(block)
    /\ Len(block[1]) = width(sel)

\* the offsets (i, j) of the cells of a selection, row by row
SelOffsets(sel) ==
    [n \in 1..(height(sel) * width(sel)) |->
        <<(n - 1) \div width(sel), (n - 1) % width(sel)>>]

\* offset p of the selection is a row of the backend and a column of the view
Resolves(sel, p) ==
    /\ sel.row_start + p[1] < Len(row_uid)
    /\ sel.col_start + p[2] < Len(columns)

ResolvedOffsets(sel) == SelectSeq(SelOffsets(sel), LAMBDA p : Resolves(sel, p))

\* the write of a text into the cell at offset p of the selection
WriteAt(sel, p, text) ==
    LET col == columns[sel.col_start + p[2] + 1]
    IN  [coord |-> <<row_uid[sel.row_start + p[1] + 1], col.col_uid>>,
         value |-> VariantFromStr(text, col.ty)]

\* C4: a paste event whose text is the empty string modifies no backend
\* cell, creates no row, opens no prompt and leaves the selection unchanged,
\* whatever the selection (a 1x1 selection included).
C4_EmptyPasteIsNoOp ==
    [][(PasteFrame /\ ev'.text = <<>>) =>
          /\ cells' = cells
          /\ row_uid' = row_uid
          /\ modify_log' = <<>>
          /\ (modal_open' => modal_open)
          /\ selected_range' = selected_range]_vars

\* a paste whose block has equal-length rows and the selection's shape
ExactFitPaste ==
    /\ PasteFrame
    /\ IsSome(selected_range)
    /\ SameShape(PastedBlock, Unwrap(selected_range))

\* C5 (as stated): an exact-fit paste is applied in the same frame without
\* the prompt, with exactly height x width writes, the write for offset
\* (i, j) carrying block cell (i, j) converted to the column's type.
C5_ExactFitWritesEveryCell ==
    [][ExactFitPaste =>
          LET sel == Unwrap(selected_range)
              offs == SelOffsets(sel)
          IN  /\ ~prompt_shown'
              /\ Len(modify_log') = height(sel) * width(sel)
              /\ \A n \in 1..Len(offs) :
                     modify_log'[n] =
                         WriteAt(sel, offs[n],
                                 PastedBlock[offs[n][1] + 1][offs[n][2] + 1])]_vars

\* C5 (amended): an exact-fit paste is applied in the same frame without
\* the prompt and leaves no pending block; it issues exactly one write per
\* selection cell whose row and column resolve, in row order, the write for
\* offset (i, j) carrying block cell (i, j) converted to the column's type.
C5_ExactFitWritesResolvedCells ==
    [][ExactFitPaste =>
          LET sel == Unwrap(selected_range)
              offs == ResolvedOffsets(sel)
          IN  /\ ~prompt_shown'
              /\ modal_open' => modal_open
              /\ about_to_paste_rows' = <<>>
              /\ row_uid' = row_uid
              /\ Len(modify_log') = Len(offs)
              /\ \A n \in 1..Len(offs) :
                     modify_log'[n] =
                         WriteAt(sel, offs[n],
                                 PastedBlock[offs[n][1] + 1][offs[n][2] + 1])]_vars

\* a 2x2 block was pasted into a 2x2 selection and written at once
C5_ExactFitApplied ==
    /\ ev.kind = "paste"
    /\ ev.text = <<"b", TAB, "1", NL, "a", TAB, "a">>
    /\ Len(modify_log) = 4
    /\ ~prompt_shown
    /\ about_to_paste_rows = <<>>

\* C6: when the block's shape differs from the selection's shape, or its
\* rows are not all of the same length, the paste frame writes no backend
\* cell and creates no row: the write waits for the prompt's confirmation.
C6_NoWriteBeforeConfirmation ==
    [][(/\ PasteFrame
        /\ IsSome(selected_range)
        /\ ~SameShape(PastedBlock, Unwrap(selected_range))) =>
          /\ cells' = cells
          /\ row_uid' = row_uid
          /\ modify_log' = <<>>]_vars

\* C7: a frame in which the pending paste is applied (Paste button) or
\* declined (Close button, Escape) ends with about_to_paste_rows empty.
C7_ResolvedPasteIsCleared ==
    [][(/\ PromptVisible(Cur)
        /\ ev'.kind \in {"paste_btn", "close", "escape"}) =>
          about_to_paste_rows' = <<>>]_vars

\* the Paste button with create_rows ticked (fill not ticked), the block
\* higher than a selection that lies inside the table on data columns
CreateRowsPaste ==
    /\ PromptVisible(Cur)
    /\ ev'.kind = "paste_btn"
    /\ create_rows_on_paste
    /\ ~fill_with_same_on_paste
    /\ Len(about_to_paste_rows) > height(Unwrap(selected_range))
    /\ Unwrap(selected_range).row_end < Len(row_uid)
    /\ Unwrap(selected_range).col_end < Len(columns)
    /\ \A c \in Unwrap(selected_range).col_start..Unwrap(selected_range).col_end :
           ~columns[c + 1].is_tool

\* C8: with create_rows confirmed, a block of H rows pasted into h < H rows
\* creates exactly H - h rows, and every block row is stored: the first h
\* in the selection's rows, the other H - h in the created rows.
C8_RowsCreatedAndStored ==
    [][CreateRowsPaste =>
          LET sel == Unwrap(selected_range)
              block == about_to_paste_rows
              h == height(sel)
              H == Len(block)
              RowOfBlock(k) == IF k <= h THEN row_uid[sel.row_start + k]
                               ELSE row_uid'[Len(row_uid) + k - h]
          IN  /\ Len(row_uid') = Len(row_uid) + H - h
              /\ \A k \in 1..H :
                   \A j \in 1..Min2(width(sel), Len(block[k])) :
                     block[k][j] # <<>> =>
                       CellAt(cells', <<RowOfBlock(k),
                                        columns[sel.col_start + j].col_uid>>)
                         = Some(VariantFromStr(block[k][j],
                                               columns[sel.col_start + j].ty))]_vars

\* the Paste button with fill_with_same ticked
FillPaste ==
    /\ PromptVisible(Cur)
    /\ ev'.kind = "paste_btn"
    /\ fill_with_same_on_paste

\* block row (i mod H), cell (j mod length of that row)
FillCell(block, p) ==
    LET row == block[(p[1] % Len(block)) + 1]
    IN  row[(p[2] % Len(row)) + 1]

\* C9 (as stated): with fill_with_same confirmed, every cell at offset
\* (i, j) of the selection is written with block row (i mod H), cell
\* (j mod length of that row).
C9_FillWritesEveryCell ==
    [][FillPaste =>
          LET sel == Unwrap(selected_range)
              offs == SelOffsets(sel)
          IN  /\ \A n \in 1..Len(offs) : Resolves(sel, offs[n])
              /\ Len(modify_log') >= Len(offs)
              /\ \A n \in 1..Len(offs) :
                     modify_log'[n] =
                         WriteAt(sel, offs[n], FillCell(about_to_paste_rows, offs[n]))]_vars

\* C9 (amended): with fill_with_same confirmed, every cell at offset (i, j)
\* of the selection whose row and column resolve is written, in row order,
\* with block row (i mod H), cell (j mod length of that row), converted to
\* the column's type; cells that do not resolve are skipped.
C9_FillWritesResolvedCells ==
    [][FillPaste =>
          LET sel == Unwrap(selected_range)
              offs == ResolvedOffsets(sel)
          IN  /\ Len(modify_log') >= Len(offs)
              /\ \A n \in 1..Len(offs) :
                     modify_log'[n] =
                         WriteAt(sel, offs[n], FillCell(about_to_paste_rows, offs[n]))]_vars

\* a block of two rows was cycled over a selection of three rows
C9_FillCycled ==
    /\ ev.kind = "paste_btn"
    /\ fill_with_same_on_paste
    /\ Len(modify_log) = 3
    /\ modify_log[1].value # modify_log[2].value
    /\ modify_log[1].value = modify_log[3].value

\* a paste of the copied text into a selection of the copied shape, source
\* and target on string-typed columns, the target inside the table
RoundTripPaste ==
    /\ PasteFrame
    /\ copied_text # <<>>
    /\ ev'.text = copied_text
    /\ IsSome(selected_range)
    /\ Len(copied_cells.vals) = height(Unwrap(selected_range))
    /\ Len(copied_cells.tys) = width(Unwrap(selected_range))
    /\ \A j \in 1..Len(copied_cells.tys) : copied_cells.tys[j] = "Str"
    /\ Unwrap(selected_range).row_end < Len(row_uid)
    /\ Unwrap(selected_range).col_end < Len(columns)
    /\ \A c \in Unwrap(selected_range).col_start..Unwrap(selected_range).col_end :
           columns[c + 1].ty = "Str"

\* C10: copying a rectangle of string-typed columns and pasting the copied
\* text into a selection of the same shape leaves every target cell with
\* the value the corresponding source cell had (no value for an empty one).
C10_CopyPasteRoundTrip ==
    [][RoundTripPaste =>
          LET sel == Unwrap(selected_range)
          IN  \A i \in 1..height(sel), j \in 1..width(sel) :
                  CellAt(cells', <<row_uid[sel.row_start + i],
                                   columns[sel.col_start + j].col_uid>>)
                      = copied_cells.vals[i][j]]_vars

\* C11: a paste event received while there is no selection writes no
\* backend cell, creates no row and does not store the pasted block as
\* pending (the pending block and the prompt stay as they were).
C11_PasteWithoutSelectionRejected ==
    [][(PasteFrame /\ ~IsSome(selected_range)) =>
          /\ cells' = cells
          /\ row_uid' = row_uid
          /\ modify_log' = <<>>
          /\ about_to_paste_rows' = about_to_paste_rows
          /\ modal_open' = modal_open]_vars

\* a 2x2 block was pasted while nothing was selected
C11_PastedWithoutSelection ==
    /\ ev.kind = "paste"
    /\ ev.text = <<"b", TAB, "1", NL, "a", TAB, "a">>
    /\ selected_range = None
    /\ pasting_block_width = 2

\* ------------------------------------------------------------------------
\* Claims on key navigation
\* ------------------------------------------------------------------------

\* the selection lies inside the table: backend rows, view columns
InTable(sel, rows, cols) ==
    /\ sel.row_end <= Len(rows) - 1
    /\ sel.col_end <= Len(cols) - 1

\* the frame just shown received an arrow key while a cell was selected
ArrowFrame ==
    /\ ev'.kind \in {"left", "right", "up", "down"}
    /\ IsSome(selected_range)
    /\ IsSome(selected_range')

\* C12: an arrow key (with or without Shift) leaves a selection that was
\* inside the table inside it: row_end <= row_count - 1 and
\* col_end <= col_count - 1; a move past either bound is a no-op.
C12_ArrowKeysStayInTable ==
    [][(ArrowFrame /\ InTable(Unwrap(selected_range), row_uid, columns)) =>
          InTable(Unwrap(selected_range'), row_uid', columns')]_vars

\* the call was move_up on a range that starts in row 0, or move_left on a
\* range that starts in column 0
MoveAtOrigin ==
    /\ IsSome(call.pre)
    /\ \/ call.name = "move_up" /\ Unwrap(call.pre).row_start = 0
       \/ call.name = "move_left" /\ Unwrap(call.pre).col_start = 0

\* C13: move_up on a range with row_start = 0 and move_left on a range with
\* col_start = 0 leave the four bounds and the editing flag unchanged, with
\* or without expand, for single-cell and multi-cell ranges.
C13_MoveAtOriginIsNoOp == MoveAtOrigin => selected_range = call.pre

\* move_up with expand was called on a multi-cell range starting in row 0
C13_MovedUpAtRowZero ==
    /\ call.name = "move_up"
    /\ call.flag
    /\ IsSome(call.pre)
    /\ Unwrap(call.pre).row_start = 0
    /\ ~is_single_cell(Unwrap(call.pre))

\* ------------------------------------------------------------------------
\* Import: RequiredColumns (importers/required_column.rs) and
\* CsvImporter::map_columns (importers/csv.rs)
\* ------------------------------------------------------------------------

\* required columns declared by the application, headers of one file
MaxRequired == 2

MaxHeaders == 3

\* char::to_lowercase on the letters of the model
LowerChar(ch) ==
    CASE ch = "A" -> "a"
      [] ch = "B" -> "b"
      [] OTHER -> ch

\* str::to_lowercase
to_lowercase(t) == [k \in 1..Len(t) |-> LowerChar(t[k])]

\* RequiredColumn::str(name)
RequiredColumnStr(name) == [name |-> name, synonyms |-> <<>>]

\* RequiredColumn::synonyms: the synonyms are stored in lower case
WithSynonyms(col, synonyms) ==
    [col EXCEPT !.synonyms = [k \in 1..Len(synonyms) |-> to_lowercase(synonyms[k])]]

\* RequiredColumn::contains_in_synonyms
contains_in_synonyms(col, name) ==
    \E k \in 1..Len(col.synonyms) : col.synonyms[k] = name

\* RequiredColumns::new: ColumnUid(idx) by position
RequiredColumnsNew(cols) == [k \in 1..Len(cols) |-> [uid |-> k - 1, col |-> cols[k]]]

\* the closure of find: the header as it is against the lower-cased name
\* of the column, or against its synonyms
HeaderMatches(col, n) == n = to_lowercase(col.name) \/ contains_in_synonyms(col, n)

\* .enumerate().find(..).map(|(idx, _)| idx): index of the first match
FindHeader(col, column_names) ==
    IF \E k \in 1..Len(column_names) : HeaderMatches(col, column_names[k])
    THEN Some((CHOOSE k \in 1..Len(column_names) :
                   /\ HeaderMatches(col, column_names[k])
                   /\ \A m \in 1..(k - 1) : ~HeaderMatches(col, column_names[m])) - 1)
    ELSE None

\* RequiredColumns::map_columns
required_map_columns(required, column_names) ==
    [k \in 1..Len(required) |-> FindHeader(required[k].col, column_names)]

\* HashMap::insert: a new key is added, the value of a present key replaced
HashMapInsert(map, key, value) ==
    [x \in DOMAIN map \cup {key} |-> IF x = key THEN value ELSE map[x]]

\* the loop over the mapped required columns, from the k-th on: the header
\* index of a matched column is inserted into csv_to_col_uid, a warning is
\* raised when the index is already there
RECURSIVE InsertMatched(_, _, _, _, _)
InsertMatched(required, mapped, k, map, warned) ==
    IF k > Len(required) THEN [map |-> map, warned |-> warned]
    ELSE IF IsSome(mapped[k])
         THEN InsertMatched(required, mapped, k + 1,
                            HashMapInsert(map, Unwrap(mapped[k]), required[k].uid),
                            IF Unwrap(mapped[k]) \in DOMAIN map
                            THEN warned + 1 ELSE warned)
         ELSE InsertMatched(required, mapped, k + 1, map, warned)

\* a mutation of InsertAdhoc: next_absent_col_uid is never advanced
RECURSIVE InsertAdhocSameUid(_, _, _, _)
InsertAdhocSameUid(header_count, csv_idx, map, next_absent_col_uid) ==
    IF csv_idx >= header_count THEN map
    ELSE IF csv_idx \in DOMAIN map
         THEN InsertAdhocSameUid(header_count, csv_idx + 1, map, next_absent_col_uid)
         ELSE InsertAdhocSameUid(header_count, csv_idx + 1,
                                 HashMapInsert(map, csv_idx, next_absent_col_uid),
                                 next_absent_col_uid)

\* the loop over the headers, from index csv_idx on: a header that is not
\* in csv_to_col_uid gets next_absent_col_uid
RECURSIVE InsertAdhoc(_, _, _, _)
InsertAdhoc(header_count, csv_idx, map, next_absent_col_uid) ==
    IF csv_idx >= header_count THEN map
    ELSE IF csv_idx \in DOMAIN map
         THEN InsertAdhoc(header_count, csv_idx + 1, map, next_absent_col_uid)
         ELSE InsertAdhoc(header_count, csv_idx + 1,
                          HashMapInsert(map, csv_idx, next_absent_col_uid),
                          next_absent_col_uid + 1)

\* the csv_to_col_uid CsvImporter::map_columns returns
importer_map_columns(required, column_names) ==
    InsertAdhoc(Len(column_names), 0,
                InsertMatched(required, required_map_columns(required, column_names),
                              1, <<>>, 0).map,
                Len(required))

\* the backend.insert_column(Some(uid), ..) calls of CsvImporter::map_columns
\* on the backend's columns: every required column, then every header that
\* no required column took
InsertedColumns(cols, required, column_names) ==
    LET map == importer_map_columns(required, column_names)
        taken == InsertMatched(required, required_map_columns(required, column_names),
                               1, <<>>, 0).map
        adhoc == {map[x] : x \in DOMAIN map \ DOMAIN taken}
    IN  [u \in DOMAIN cols \cup {required[k].uid : k \in 1..Len(required)} \cup adhoc |->
            IF \E k \in 1..Len(required) : required[k].uid = u THEN "required"
            ELSE IF u \in adhoc THEN "adhoc"
            ELSE cols[u]]

\* names of required columns and of headers
NameChoices == {<<"a">>, <<"A">>, <<"b">>}

\* a required column: a name, with or without the synonym "B"
RequiredChoices ==
    {RequiredColumnStr(n) : n \in NameChoices}
    \cup {WithSynonyms(RequiredColumnStr(n), <<<<"B">>>>) : n \in {<<"a">>, <<"A">>}}

SeqsUpTo(S, n) == UNION {[1..m -> S] : m \in 0..n}

\* an importer over some required columns, a target backend without columns
InitImport ==
    /\ InitViewState
    /\ columns = InitColumns
    /\ selected_range = None
    /\ last_pressed = None
    /\ call = NoCall
    /\ required_columns \in {RequiredColumnsNew(cols) : cols \in SeqsUpTo(RequiredChoices, MaxRequired)}
    /\ csv_columns = <<>>
    /\ mapped_columns = <<>>
    /\ csv_to_col_uid = <<>>
    /\ backend_columns = <<>>
    /\ double_match_warnings = 0
    /\ column_default = <<>>
    /\ VariantBackendNew
    /\ NoLoad
    /\ NoMap
    /\ is_read_only = FALSE
    /\ editable_cells = FALSE
    /\ NotEditing

\* CsvImporter::load reads a header record and maps it
LoadHeaders ==
    /\ \E headers \in SeqsUpTo(NameChoices, MaxHeaders) :
        /\ csv_columns' = headers
        /\ mapped_columns' = required_map_columns(required_columns, headers)
        /\ csv_to_col_uid' = importer_map_columns(required_columns, headers)
        /\ backend_columns' = InsertedColumns(backend_columns, required_columns, headers)
        /\ double_match_warnings' =
               InsertMatched(required_columns,
                             required_map_columns(required_columns, headers),
                             1, <<>>, 0).warned
        /\ column_default' =
               [u \in DOMAIN column_default
                         \ DOMAIN InsertedColumns(<<>>, required_columns, headers) |->
                   column_default[u]]
    /\ UNCHANGED <<backend_vars, view_vars, trace_vars, call, required_columns,
                   variant_vars, is_read_only, editable_cells, edit_vars,
                   load_vars, map_vars>>

NextImport == LoadHeaders

SpecImport == InitImport /\ [][NextImport]_vars

\* ---------------------------------------------------------------------
\* The backends driven directly: CsvBackend::create_row / remove_rows /
\* clear and VariantBackend::insert_row / clear / one_shot_flags_archive
\* ---------------------------------------------------------------------

\* archive calls counted after a flag was raised
MaxArchived == 3

\* the first loop of insert_row: cell_data.insert for every (col_uid, value)
\* of values, in order
RECURSIVE InsertValues(_, _, _)
InsertValues(data, row, values) ==
    IF values = <<>> THEN data
    ELSE InsertValues(HashMapInsert(data, <<row, Head(values)[1]>>, Head(values)[2]),
                      row, Tail(values))

\* provided_cells
ProvidedCells(values) == {values[k][1] : k \in 1..Len(values)}

\* a mutation of InsertDefaults: the default is written to the provided
\* cells too
InsertDefaultsAll(data, defaults, row, provided) ==
    [x \in DOMAIN data \cup {<<row, u>> : u \in DOMAIN defaults} |->
        IF x[1] = row /\ x[2] \in DOMAIN defaults
        THEN defaults[x[2]] ELSE data[x]]

\* the second loop of insert_row: the default of every column that has one
\* and was not provided
InsertDefaults(data, defaults, row, provided) ==
    [x \in DOMAIN data \cup {<<row, u>> : u \in DOMAIN defaults \ provided} |->
        IF x[1] = row /\ x[2] \in DOMAIN defaults \ provided
        THEN defaults[x[2]] ELSE data[x]]

\* cell_data after VariantBackend::insert_row(values) for the row next_row_uid
insert_row(data, defaults, row, values) ==
    InsertDefaults(InsertValues(data, row, values), defaults, row, ProvidedCells(values))

InitBackend ==
    /\ InitCommon
    /\ selected_range = None
    /\ last_pressed = None
    /\ call = NoCall

\* CsvBackend::create_row(HashMap::new()): the uid is the length of row_uid
CsvCreateRow ==
    /\ Len(row_uid) < MaxRows
    /\ row_uid' = row_uid \o CreatedUids(row_uid, 1)
    /\ UNCHANGED <<cells, cells_updated, view_vars, trace_vars, call, import_vars,
                   variant_vars, is_read_only, editable_cells, edit_vars,
                   load_vars, map_vars>>

\* CsvBackend::remove_rows(vec![id])
CsvRemoveRows ==
    /\ \E id \in 0..(MaxRows - 1) :
        /\ row_uid' = remove_rows_uid(row_uid, {id})
        /\ cells' = remove_rows_cells(cells, {id})
    /\ UNCHANGED <<cells_updated, view_vars, trace_vars, call, import_vars, variant_vars,
                   is_read_only, editable_cells, edit_vars,
                   load_vars, map_vars>>

\* CsvBackend::clear
CsvClear ==
    /\ row_uid' = <<>>
    /\ cells' = <<>>
    /\ UNCHANGED <<cells_updated, view_vars, trace_vars, call, import_vars, variant_vars,
                   is_read_only, editable_cells, edit_vars,
                   load_vars, map_vars>>

\* VariantBackend::insert_row(no values), as VariantBackend::create_row calls it
VariantInsertRow ==
    /\ next_row_uid < MaxRows
    /\ row_order' = Append(row_order, next_row_uid)
    /\ one_shot_flags' = [one_shot_flags EXCEPT !.row_set_updated = TRUE]
    /\ next_row_uid' = next_row_uid + 1
    /\ issued' = issued \cup {next_row_uid}
    /\ archived' = 0
    /\ cell_data' = insert_row(cell_data, column_default, next_row_uid, <<>>)
    /\ UNCHANGED <<one_shot_flags_delay, created, backend_vars, view_vars, trace_vars, call,
                   import_vars, is_read_only, editable_cells, edit_vars,
                   load_vars, map_vars>>

\* VariantBackend::clear
VariantClear ==
    /\ row_order' = <<>>
    /\ one_shot_flags' = [one_shot_flags EXCEPT !.row_set_updated = TRUE]
    /\ next_row_uid' = 0
    /\ archived' = 0
    /\ cell_data' = <<>>
    /\ UNCHANGED <<one_shot_flags_delay, issued, created, backend_vars, view_vars, trace_vars,
                   call, import_vars, is_read_only, editable_cells, edit_vars,
                   load_vars, map_vars>>

\* VariantBackend::one_shot_flags_archive, called once in a frame
VariantArchive ==
    /\ archived < MaxArchived
    /\ one_shot_flags_delay' = one_shot_flags
    /\ archived' = archived + 1
    /\ UNCHANGED <<row_order, next_row_uid, one_shot_flags, issued, cell_data, created,
                   backend_vars,
                   view_vars, trace_vars, call, import_vars, is_read_only, editable_cells, edit_vars,
                   load_vars, map_vars>>

NextBackend ==
    \/ CsvCreateRow
    \/ CsvRemoveRows
    \/ CsvClear
    \/ VariantInsertRow
    \/ VariantClear
    \/ VariantArchive

SpecBackend == InitBackend /\ [][NextBackend]_vars

\* ---------------------------------------------------------------------
\* VariantBackend::new(columns), create_row, set and clear
\* ---------------------------------------------------------------------

\* rows of the backend
MaxVariantRows == 2

\* the (col_uid, value) pairs handed to create_row
ValuePairs == {<<c, v>> : c \in {0, 1}, v \in {VStr(<<"a">>), VU32(<<"1">>)}}

\* VariantBackend::new with two columns: ColumnUid(idx) by position, each
\* with or without a default
InitVariant ==
    /\ InitViewState
    /\ columns = InitColumns
    /\ selected_range = None
    /\ last_pressed = None
    /\ call = NoCall
    /\ required_columns = <<>>
    /\ csv_columns = <<>>
    /\ mapped_columns = <<>>
    /\ csv_to_col_uid = <<>>
    /\ double_match_warnings = 0
    /\ backend_columns = [u \in {0, 1} |-> "required"]
    /\ \E with_default \in SUBSET {0, 1} :
           column_default = [u \in with_default |->
                                IF u = 0 THEN VStr(<<"d">>) ELSE VU32(<<"1">>)]
    /\ VariantBackendNew
    /\ NoLoad
    /\ NoMap
    /\ is_read_only = FALSE
    /\ editable_cells = FALSE
    /\ NotEditing

\* VariantBackend::create_row(values): Some(self.insert_row(values))
VariantCreateRow ==
    /\ next_row_uid < MaxVariantRows
    /\ \E values \in SeqsUpTo(ValuePairs, 2) :
        /\ cell_data' = insert_row(cell_data, column_default, next_row_uid, values)
        /\ created' = Some([values |-> values, row |-> next_row_uid])
    /\ row_order' = Append(row_order, next_row_uid)
    /\ one_shot_flags' = [one_shot_flags EXCEPT !.row_set_updated = TRUE]
    /\ next_row_uid' = next_row_uid + 1
    /\ issued' = issued \cup {next_row_uid}
    /\ archived' = 0
    /\ UNCHANGED <<one_shot_flags_delay, backend_vars, view_vars, trace_vars, call,
                   import_vars, is_read_only, editable_cells, edit_vars, load_vars, map_vars>>

\* VariantBackend::set(coord, variant) on a cell of a row of the backend
VariantSet ==
    /\ \E k \in 1..Len(row_order), c \in {0, 1} :
           cell_data' = HashMapInsert(cell_data, <<row_order[k], c>>, VStr(<<"b">>))
    /\ UNCHANGED <<row_order, next_row_uid, one_shot_flags, one_shot_flags_delay, issued,
                   archived, created, backend_vars, view_vars, trace_vars, call,
                   import_vars, is_read_only, editable_cells, edit_vars, load_vars, map_vars>>

NextVariant ==
    \/ VariantCreateRow
    \/ VariantSet
    \/ VariantClear

SpecVariant == InitVariant /\ [][NextVariant]_vars

\* ---------------------------------------------------------------------
\* CsvImporter::load on a file
\* ---------------------------------------------------------------------

\* lines of a file
MaxLines == 3

\* the window determine_separator samples: 1024 * 1024 bytes
SampleLimit == 1048576

\* a byte that is not valid UTF-8: the record holding it fails to parse
BadByte == "0xFF"

\* the bytes of the file: every line with its terminator
RECURSIVE FileBytes(_)
FileBytes(lines) ==
    IF lines = <<>> THEN <<>> ELSE Head(lines) \o <<NL>> \o FileBytes(Tail(lines))

\* rdr.bytes().take(n)
Take(bytes, n) == SubSeq(bytes, 1, Min2(Len(bytes), n))

CountByte(bytes, b) == Cardinality({k \in 1..Len(bytes) : bytes[k] = b})

\* one step of the stable sort by count: x goes behind every entry whose
\* count is not greater
InsertByCount(sorted, x) ==
    IF \E k \in 1..Len(sorted) : sorted[k].n > x.n
    THEN SubSeq(sorted, 1, (CHOOSE k \in 1..Len(sorted) :
                                /\ sorted[k].n > x.n
                                /\ \A m \in 1..(k - 1) : sorted[m].n <= x.n) - 1)
         \o <<x>>
         \o SubSeq(sorted, CHOOSE k \in 1..Len(sorted) :
                               /\ sorted[k].n > x.n
                               /\ \A m \in 1..(k - 1) : sorted[m].n <= x.n,
                   Len(sorted))
    ELSE Append(sorted, x)

\* counts.sort_by(|a, b| a.0.cmp(&b.0)): stable, ascending
RECURSIVE SortByCount(_)
SortByCount(counts) ==
    IF counts = <<>> THEN <<>>
    ELSE InsertByCount(SortByCount(SubSeq(counts, 1, Len(counts) - 1)),
                       counts[Len(counts)])

\* counts after the loop over the sampled bytes: the array starts as
\* [(0, b','), (1, b'\t'), (2, b';')] and the first component is incremented
\* for every occurrence
SeparatorCounts(bytes) ==
    <<[n |-> 0 + CountByte(bytes, ","), sep |-> ","],
      [n |-> 1 + CountByte(bytes, TAB), sep |-> TAB],
      [n |-> 2 + CountByte(bytes, ";"), sep |-> ";"]>>

\* CsvImporter::determine_separator
determine_separator(cfg, lines) ==
    CASE cfg.separator = "Auto" ->
            SortByCount(SeparatorCounts(Take(FileBytes(lines), SampleLimit)))[3].sep
      [] cfg.separator = "Comma" -> ","
      [] cfg.separator = "Tab" -> TAB
      [] OTHER -> ";"

\* the fields of a line
RECURSIVE SplitLine(_, _)
SplitLine(line, sep) ==
    IF line = <<>> THEN << <<>> >>
    ELSE IF Head(line) = sep THEN << <<>> >> \o SplitLine(Tail(line), sep)
    ELSE << <<Head(line)>> \o Head(SplitLine(Tail(line), sep)) >>
         \o Tail(SplitLine(Tail(line), sep))

\* the records the csv reader yields: Ok(fields), or Err for a line that is
\* not valid UTF-8
Records(lines, sep) ==
    [k \in 1..Len(lines) |->
        IF \E b \in 1..Len(lines[k]) : lines[k][b] = BadByte
        THEN [ok |-> FALSE, fields |-> <<>>]
        ELSE [ok |-> TRUE, fields |-> SplitLine(lines[k], sep)]]

\* the records left after records.next() was called skip_first_rows times
AfterSkip(cfg, lines) ==
    SubSeq(Records(lines, determine_separator(cfg, lines)),
           cfg.skip_first_rows + 1, Len(lines))

\* map_columns is called: there is a header record and it parses
cfg_maps(cfg, lines) ==
    cfg.has_headers /\ AfterSkip(cfg, lines) # <<>> /\ Head(AfterSkip(cfg, lines)).ok

\* the load returns early: there is no header record, or it fails to parse
NoHeader(cfg, lines) == cfg.has_headers /\ AfterSkip(cfg, lines) = <<>>

BadHeader(cfg, lines) ==
    cfg.has_headers /\ AfterSkip(cfg, lines) # <<>> /\ ~Head(AfterSkip(cfg, lines)).ok

Headers(cfg, lines) == Head(AfterSkip(cfg, lines)).fields

\* the records the loop enumerates
DataRecords(cfg, lines) ==
    IF cfg.has_headers THEN Tail(AfterSkip(cfg, lines)) ELSE AfterSkip(cfg, lines)

\* csv_to_col_uid of the load
LoadMap(required, cfg, lines) ==
    IF cfg.has_headers THEN importer_map_columns(required, Headers(cfg, lines)) ELSE <<>>

\* the loop over the records from row_idx on: the records inserted as rows,
\* and the row_idx of the record that failed, if the loop reached one
RECURSIVE ReadRecords(_, _, _, _)
ReadRecords(recs, row_idx, lines_read, max_lines) ==
    IF row_idx >= Len(recs) THEN [rows |-> <<>>, failed |-> None]
    ELSE IF ~recs[row_idx + 1].ok THEN [rows |-> <<>>, failed |-> Some(row_idx)]
    ELSE IF IsSome(max_lines) /\ lines_read + 1 >= Unwrap(max_lines)
         THEN [rows |-> <<recs[row_idx + 1].fields>>, failed |-> None]
         ELSE [rows |-> <<recs[row_idx + 1].fields>>
                          \o ReadRecords(recs, row_idx + 1,
                                         IF IsSome(max_lines) THEN lines_read + 1 ELSE 0,
                                         max_lines).rows,
               failed |-> ReadRecords(recs, row_idx + 1,
                                      IF IsSome(max_lines) THEN lines_read + 1 ELSE 0,
                                      max_lines).failed]

\* what the loop of this load does
LoadLoop(cfg, lines, max_lines) == ReadRecords(DataRecords(cfg, lines), 0, 0, max_lines)

\* CsvImporter::convert_cell_value: the type of a required column (Str for
\* RequiredColumn::str), a Str otherwise
convert_cell_value(required, col_uid, value) ==
    IF \E k \in 1..Len(required) : required[k].uid = col_uid
    THEN VariantFromStr(value, "Str")
    ELSE VStr(value)

\* the (col_uid, value) pairs of a record
RowValues(required, map, fields) ==
    [k \in 1..Len(fields) |->
        <<IF k - 1 \in DOMAIN map THEN map[k - 1] ELSE k - 1,
          convert_cell_value(required,
                             IF k - 1 \in DOMAIN map THEN map[k - 1] ELSE k - 1,
                             fields[k])>>]

\* backend.insert_row for every record read, from the k-th on
RECURSIVE InsertRows(_, _, _, _, _)
InsertRows(data, required, map, rows, k) ==
    IF k > Len(rows) THEN data
    ELSE InsertRows(insert_row(data, <<>>, k - 1, RowValues(required, map, rows[k])),
                    required, map, rows, k + 1)

\* max_col_idx after the loop
MaxColIdx(rows) ==
    IF rows = <<>> THEN 0
    ELSE CHOOSE m \in {Len(rows[k]) - 1 : k \in 1..Len(rows)} :
             \A k \in 1..Len(rows) : Len(rows[k]) - 1 <= m

\* the status the loop leaves: ReaderErrorAtLine for a record that failed
LoopStatus(cfg, lines, max_lines) ==
    IF IsSome(LoadLoop(cfg, lines, max_lines).failed)
    THEN [kind |-> "ReaderErrorAtLine",
          line |-> Unwrap(LoadLoop(cfg, lines, max_lines).failed) + 1 + cfg.skip_first_rows]
    ELSE [kind |-> "Empty", line |-> 0]

\* the status after load: the early returns set Empty or ReaderError;
\* otherwise the assignment behind the loop replaces whatever the loop left
LoadStatus(cfg, lines, max_lines) ==
    IF NoHeader(cfg, lines) THEN [kind |-> "Empty", line |-> 0]
    ELSE IF BadHeader(cfg, lines) THEN [kind |-> "ReaderError", line |-> 0]
    ELSE [LoopStatus(cfg, lines, max_lines) EXCEPT !.kind = "Loaded", !.line = 0]

\* the rows the load inserts
LoadRows(cfg, lines, max_lines) ==
    IF NoHeader(cfg, lines) \/ BadHeader(cfg, lines) THEN <<>>
    ELSE LoadLoop(cfg, lines, max_lines).rows

\* the columns of the backend after the load: those of map_columns, or one
\* for each index below max_col_idx when there is no header record
LoadColumns(required, cfg, lines, max_lines) ==
    IF NoHeader(cfg, lines) \/ BadHeader(cfg, lines) THEN <<>>
    ELSE IF cfg.has_headers THEN InsertedColumns(<<>>, required, Headers(cfg, lines))
    ELSE [u \in 0..(MaxColIdx(LoadRows(cfg, lines, max_lines)) - 1) |-> "generated"]

\* IoStatus::is_error
is_error(st) == st.kind \in {"IoError", "ReaderError", "ReaderErrorAtLine", "UnknownSeparator"}

\* the lines of the files
LineChoices ==
    {<<"a">>, <<"a", ",", "b">>, <<"b", ";", "a">>, <<"a", TAB, "a">>,
     <<",", ";", ";">>, <<BadByte>>}

\* an importer that has loaded nothing, any configuration
InitLoad ==
    /\ InitViewState
    /\ columns = InitColumns
    /\ selected_range = None
    /\ last_pressed = None
    /\ call = NoCall
    /\ required_columns \in {RequiredColumnsNew(<<>>),
                             RequiredColumnsNew(<<RequiredColumnStr(<<"a">>)>>)}
    /\ csv_columns = <<>>
    /\ mapped_columns = <<>>
    /\ csv_to_col_uid = <<>>
    /\ backend_columns = <<>>
    /\ double_match_warnings = 0
    /\ column_default = <<>>
    /\ VariantBackendNew
    /\ is_read_only = FALSE
    /\ editable_cells = FALSE
    /\ NotEditing
    /\ file = [lines |-> <<>>, max_lines |-> None]
    /\ config \in [separator : {"Auto", "Comma", "Tab", "Semicolon"},
                   separator_u8 : {","}, skip_first_rows : {0, 1},
                   has_headers : BOOLEAN]
    /\ status = [kind |-> "Empty", line |-> 0]
    /\ NoMap

\* CsvImporter::load(config, rdr, backend, max_lines) on a new importer
Load ==
    /\ status.kind = "Empty"
    /\ file.lines = <<>>
    /\ \E lines \in SeqsUpTo(LineChoices, MaxLines), max_lines \in {None, Some(1)} :
        /\ file' = [lines |-> lines, max_lines |-> max_lines]
        /\ config' = [config EXCEPT !.separator_u8 = determine_separator(config, lines)]
        /\ status' = LoadStatus(config, lines, max_lines)
        /\ backend_columns' = LoadColumns(required_columns, config, lines, max_lines)
        /\ column_default' = <<>>
        /\ cell_data' = InsertRows(<<>>, required_columns,
                                   LoadMap(required_columns, config, lines),
                                   LoadRows(config, lines, max_lines), 1)
        /\ row_order' = [k \in 1..Len(LoadRows(config, lines, max_lines)) |-> k - 1]
        /\ next_row_uid' = Len(LoadRows(config, lines, max_lines))
        /\ issued' = issued \cup {k - 1 : k \in 1..Len(LoadRows(config, lines, max_lines))}
        /\ one_shot_flags' = [OneShotFlagsDefault EXCEPT !.columns_reset = TRUE, !.row_set_updated = TRUE]
        /\ archived' = 0
        /\ IF cfg_maps(config, lines)
           THEN /\ csv_columns' = Headers(config, lines)
                /\ mapped_columns' =
                       required_map_columns(required_columns, Headers(config, lines))
                /\ csv_to_col_uid' = LoadMap(required_columns, config, lines)
                /\ double_match_warnings' =
                       InsertMatched(required_columns,
                                     required_map_columns(required_columns,
                                                          Headers(config, lines)),
                                     1, <<>>, 0).warned
           ELSE UNCHANGED <<csv_columns, mapped_columns, csv_to_col_uid,
                            double_match_warnings>>
    /\ UNCHANGED <<backend_vars, view_vars, trace_vars, call, required_columns,
                   one_shot_flags_delay, created, is_read_only, editable_cells,
                   edit_vars, map_vars>>

NextLoad == Load

SpecLoad == InitLoad /\ [][NextLoad]_vars

\* ---------------------------------------------------------------------
\* Claims on cell editing
\* ---------------------------------------------------------------------

\* the column uids of the read-only columns
ReadOnlyUids ==
    {columns[k].col_uid : k \in {j \in 1..Len(columns) :
                                     columns[j].read_only /\ ~columns[j].is_tool}}

\* the selection lies in a read-only column
SelectedReadOnly ==
    /\ IsSome(selected_range)
    /\ IsSome(ColAt(columns, Unwrap(selected_range).col_start))
    /\ Unwrap(ColAt(columns, Unwrap(selected_range).col_start)).read_only

RowUids(rows) == {rows[k] : k \in 1..Len(rows)}

\* C21: under clicks and key presses a cell of a read-only column never
\* enters edit mode: no frame opens an edit buffer while the selection is in
\* the column, and no frame changes the value of a cell of the column
C21_ReadOnlyColumnNeverEdited ==
    [][/\ (SelectedReadOnly /\ ~IsSome(cell_when_editing)) => ~IsSome(cell_when_editing')
       /\ \A u \in RowUids(row_uid'), c \in ReadOnlyUids :
              CellAt(cells', <<u, c>>) = CellAt(cells, <<u, c>>)]_vars

\* a cell is being edited: the buffer is open and the editor branch is
\* taken for the selected cell
Editing == IsSome(cell_when_editing) /\ IsSome(EditCoord(Cur, row_uid))

\* the cell holds v; a cell without a value holds the empty value
Holds(cellmap, coord, v) ==
    \/ CellAt(cellmap, coord) = Some(v)
    \/ VariantIsEmpty(v) /\ coord \notin DOMAIN cellmap

C23_EscapeDiscardsAndDeselects ==
    [][(ev'.kind = "escape" /\ ~PromptVisible(Cur)) =>
          /\ selected_range' = None
          /\ cell_when_editing' = None
          /\ cells' = cells]_vars

\* a click on cell (r, c): the frame of the press, then the frame of the
\* release, both without Shift
ClickOn(s, r, c) ==
    show(show(s, [In("press") EXCEPT !.row = r, !.col = c]),
         [In("release") EXCEPT !.row = r, !.col = c])

\* the single cell (r, c) is selected, the editor branch applies to it and
\* no edit buffer is open
SelectedNotEdited(r, c) ==
    /\ selected_range = Some(single_cell(r, c))
    /\ cell_when_editing = None
    /\ IsSome(EditCoord(Cur, row_uid))
    /\ ~PromptVisible(Cur)

\* C24: with a single editable cell (r, c) selected and not being edited, a
\* click on (r, c) leaves (r, c) selected with its edit buffer open
C24_ClickOnSelectedCellEdits ==
    \A r \in RenderedRows, c \in RenderedCols :
        SelectedNotEdited(r, c) =>
            /\ IsSome(ClickOn(Cur, r, c).cell_when_editing)
            /\ ClickOn(Cur, r, c).selected_range = Some(single_cell(r, c))

\* a Shift+click on cell (r, c) as handle_selections processes it: the
\* press, then the release, both with Shift held
ShiftClickOn(s, r, c) ==
    handle_selections(
        handle_selections(s, [In("press") EXCEPT !.row = r, !.col = c, !.shift = TRUE]),
        [In("release") EXCEPT !.row = r, !.col = c, !.shift = TRUE])

\* rectangle a covers every cell of rectangle b
Covers(a, b) ==
    /\ a.row_start <= b.row_start
    /\ a.row_end >= b.row_end
    /\ a.col_start <= b.col_start
    /\ a.col_end >= b.col_end

\* C25: a Shift+click on (r, c) while a selection exists results in a
\* rectangle that contains (r, c) and every cell of the previous selection
C25_ShiftClickStretches ==
    \A r \in RenderedRows, c \in RenderedCols :
        IsSome(selected_range) =>
            /\ IsSome(ShiftClickOn(Cur, r, c).selected_range)
            /\ contains(Unwrap(ShiftClickOn(Cur, r, c).selected_range), r, c)
            /\ Covers(Unwrap(ShiftClickOn(Cur, r, c).selected_range),
                      Unwrap(selected_range))

\* the last call was an arrow move that no bound blocked: there is a column
\* (row) before the range for left (up), one after it for right (down)
ArrowMoved ==
    /\ IsSome(call.pre)
    /\ CASE call.name = "move_left" -> Unwrap(call.pre).col_start > 0
         [] call.name = "move_right" -> Unwrap(call.pre).col_end + 1 < call.a
         [] call.name = "move_up" -> Unwrap(call.pre).row_start > 0
         [] call.name = "move_down" -> Unwrap(call.pre).row_end + 1 < call.a
         [] OTHER -> FALSE

\* one step of the edges of an axis: towards the start (dir = -1) or the
\* end (dir = 1); with Shift only the edge facing the direction moves
StepAxis(start, end, dir, shift) ==
    IF shift
    THEN IF dir < 0 THEN <<start - 1, end>> ELSE <<start, end + 1>>
    ELSE <<start + dir, end + dir>>

\* C26: an arrow move that no bound blocks moves both edges of the axis of
\* travel by one without Shift, only the edge facing the direction of travel
\* with Shift, and never changes the bounds of the other axis
C26_ArrowMoveEdges ==
    ArrowMoved =>
        /\ call.name \in {"move_left", "move_right"} =>
              /\ <<Unwrap(selected_range).col_start, Unwrap(selected_range).col_end>> =
                     StepAxis(Unwrap(call.pre).col_start, Unwrap(call.pre).col_end,
                              IF call.name = "move_left" THEN -1 ELSE 1, call.flag)
              /\ Unwrap(selected_range).row_start = Unwrap(call.pre).row_start
              /\ Unwrap(selected_range).row_end = Unwrap(call.pre).row_end
        /\ call.name \in {"move_up", "move_down"} =>
              /\ <<Unwrap(selected_range).row_start, Unwrap(selected_range).row_end>> =
                     StepAxis(Unwrap(call.pre).row_start, Unwrap(call.pre).row_end,
                              IF call.name = "move_up" THEN -1 ELSE 1, call.flag)
              /\ Unwrap(selected_range).col_start = Unwrap(call.pre).col_start
              /\ Unwrap(selected_range).col_end = Unwrap(call.pre).col_end

\* a rectangle of two rows and two columns was moved down with Shift
C26_ShiftDownOnRectangle ==
    /\ ArrowMoved
    /\ call.name = "move_down"
    /\ call.flag
    /\ width(Unwrap(call.pre)) = 2
    /\ height(Unwrap(call.pre)) = 2
    /\ height(Unwrap(selected_range)) = 3

\* the selection lies inside the table: every row index has a row and every
\* column index a column
SelectionInside ==
    /\ IsSome(selected_range)
    /\ Unwrap(selected_range).row_start <= Unwrap(selected_range).row_end
    /\ Unwrap(selected_range).col_start <= Unwrap(selected_range).col_end
    /\ IsSome(RowUidAt(row_uid, Unwrap(selected_range).row_end))
    /\ IsSome(ColAt(columns, Unwrap(selected_range).col_end))

\* the pieces joined with a separator between neighbours
RECURSIVE JoinWith(_, _)
JoinWith(pieces, sep) ==
    IF pieces = <<>> THEN <<>>
    ELSE IF Len(pieces) = 1 THEN pieces[1]
    ELSE pieces[1] \o <<sep>> \o JoinWith(Tail(pieces), sep)

\* the string form of the cell at offset (i, j) of the selection, empty for
\* a cell without a value
ClipField(i, j) ==
    CopyCell(Cur, Unwrap(selected_range).row_start + i - 1,
             Unwrap(selected_range).col_start + j - 1)

\* h lines of w fields
ClipBlock ==
    JoinWith([i \in 1..height(Unwrap(selected_range)) |->
                 JoinWith([j \in 1..width(Unwrap(selected_range)) |-> ClipField(i, j)],
                          TAB)],
             NL)

\* C27: Ctrl+C with a selection inside the table puts on the clipboard the
\* selection's h lines of w tab-separated fields, also when every selected
\* cell is empty
C27_CopyWritesBlock ==
    [][(ev'.kind = "ctrl_c" /\ SelectionInside) => copied_text' = ClipBlock]_vars

\* the candidates of the separator detection
Candidates == {",", TAB, ";"}

\* the bytes of the loaded file that determine_separator samples
Sampled == Take(FileBytes(file.lines), SampleLimit)

\* C28: with separator Auto, the separator of a loaded file is the
\* candidate whose count in the sampled bytes is strictly greater than the
\* count of every other candidate, whenever there is such a candidate
C28_AutoPicksMostFrequent ==
    config.separator = "Auto" =>
        \A c \in Candidates :
            (\A d \in Candidates \ {c} : CountByte(Sampled, c) > CountByte(Sampled, d))
                => config.separator_u8 = c


\* the loop of the last load reached a record that failed to parse
RecordFailed ==
    /\ ~NoHeader(config, file.lines)
    /\ ~BadHeader(config, file.lines)
    /\ IsSome(LoadLoop(config, file.lines, file.max_lines).failed)

\* the rows of the records before the one that failed are in the backend:
\* a row for each, holding the first field of its record
RowsBeforeFailureKept ==
    /\ Len(row_order) = Unwrap(LoadLoop(config, file.lines, file.max_lines).failed)
    /\ \A k \in 1..Len(row_order) :
          \E x \in DOMAIN cell_data :
              /\ x[1] = row_order[k]
              /\ Len(DataRecords(config, file.lines)[k].fields) = 1
                    => cell_data[x].s = DataRecords(config, file.lines)[k].fields[1]

\* C29: after a load whose loop reached a record that failed to parse, the
\* rows read before it are in the backend and status() is an error that
\* carries the line number of the record
C29_FailedRecordReported ==
    RecordFailed =>
        /\ RowsBeforeFailureKept
        /\ is_error(status)
        /\ status.line = Unwrap(LoadLoop(config, file.lines, file.max_lines).failed)
                             + 1 + config.skip_first_rows

\* the value create_row was given for column c: that of the last pair
LastProvided(values, c) ==
    values[CHOOSE k \in 1..Len(values) :
               /\ values[k][1] = c
               /\ \A m \in (k + 1)..Len(values) : values[m][1] # c][2]

\* the cell the new row is to hold in column c, None for no cell
ExpectedCell(values, c) ==
    IF c \in ProvidedCells(values) THEN Some(LastProvided(values, c))
    ELSE IF c \in DOMAIN column_default THEN Some(column_default[c])
    ELSE None

\* C30: create_row(values) returns a RowUid that no row of the backend has,
\* appends it to the row order and leaves in every column of the new row the
\* value provided, else the column's default, else no cell; the cells of all
\* other rows are unchanged
C30_CreateRowCells ==
    [][Len(row_order') = Len(row_order) + 1 =>
          /\ IsSome(created')
          /\ \A k \in 1..Len(row_order) : row_order[k] # Unwrap(created').row
          /\ row_order' = Append(row_order, Unwrap(created').row)
          /\ \A c \in DOMAIN backend_columns :
                CellAt(cell_data', <<Unwrap(created').row, c>>)
                    = ExpectedCell(Unwrap(created').values, c)
          /\ \A x \in DOMAIN cell_data \cup DOMAIN cell_data' :
                x[1] # Unwrap(created').row =>
                    /\ x \in DOMAIN cell_data
                    /\ x \in DOMAIN cell_data'
                    /\ cell_data'[x] = cell_data[x]]_vars

\* a second row was created with a value for column 0 only, column 1 has a
\* default: the row holds the value and the default, the first row its cell
C30_ValueAndDefault ==
    /\ IsSome(created)
    /\ Unwrap(created).row = 1
    /\ row_order = <<0, 1>>
    /\ ProvidedCells(Unwrap(created).values) = {0}
    /\ 1 \in DOMAIN column_default
    /\ CellAt(cell_data, <<1, 0>>) = Some(VStr(<<"a">>))
    /\ CellAt(cell_data, <<1, 1>>) = Some(column_default[1])
    /\ CellAt(cell_data, <<0, 1>>) = Some(VStr(<<"b">>))

\* ---------------------------------------------------------------------
\* Claims on a read-only backend
\* ---------------------------------------------------------------------

\* C20: while the backend's is_read_only flag is set, no frame of the view
\* creates a row, removes a row or changes a cell value
C20_ReadOnlyBackendUntouched ==
    [][is_read_only => (row_uid' = row_uid /\ cells' = cells)]_vars

\* ---------------------------------------------------------------------
\* Claims on row identifiers and one-shot flags
\* ---------------------------------------------------------------------

Distinct(seq) == \A j, k \in 1..Len(seq) : j = k \/ seq[j] # seq[k]

\* C17: after any sequence of create_row, remove_rows and clear the rows of a
\* backend have pairwise distinct RowUids
C17_RowUidsDistinct == Distinct(row_uid) /\ Distinct(row_order)

\* C18: a RowUid returned by VariantBackend row creation is greater than
\* every RowUid issued before, the rows removed by clear included
C18_RowUidsNeverReissued ==
    [][Len(row_order') = Len(row_order) + 1 =>
          \A u \in issued : row_order'[Len(row_order')] > u]_vars

\* C19: with one_shot_flags_archive called once per frame, one_shot_flags()
\* returns row_set_updated as set in the frame after the one that raised it
\* and as unset in every later frame, until it is raised again
C19_FlagReadExactlyOnce ==
    /\ archived = 1 => one_shot_flags_delay.row_set_updated
    /\ archived >= 2 => ~one_shot_flags_delay.row_set_updated

\* ---------------------------------------------------------------------
\* Claims on the import of headers
\* ---------------------------------------------------------------------

EqualIgnoringCase(x, y) == to_lowercase(x) = to_lowercase(y)

\* the header is, ignoring letter case, the name of the column or one of
\* its synonyms
NameOrSynonym(col, n) ==
    \/ EqualIgnoringCase(n, col.name)
    \/ \E k \in 1..Len(col.synonyms) : EqualIgnoringCase(n, col.synonyms[k])

\* C14: map_columns matches a required column to a header exactly when the
\* header equals, ignoring letter case, the name of the column or one of
\* its synonyms, and to no other header
C14_MatchIgnoresCase ==
    \A k \in 1..Len(mapped_columns) :
        /\ IsSome(mapped_columns[k]) <=>
               \E h \in 1..Len(csv_columns) :
                   NameOrSynonym(required_columns[k].col, csv_columns[h])
        /\ IsSome(mapped_columns[k]) =>
               NameOrSynonym(required_columns[k].col,
                             csv_columns[Unwrap(mapped_columns[k]) + 1])

\* C16: when two required columns are found for one header, the header stays
\* with the one declared first, a warning is raised and the import goes on
C16_FirstMatchWins ==
    \A j, k \in 1..Len(mapped_columns) :
        (j < k /\ IsSome(mapped_columns[j]) /\ mapped_columns[j] = mapped_columns[k]) =>
            /\ csv_to_col_uid[Unwrap(mapped_columns[j])] = required_columns[j].uid
            /\ double_match_warnings > 0
            /\ DOMAIN csv_to_col_uid = 0..(Len(csv_columns) - 1)

\* the header at index h was found for some required column
HeaderTaken(mapped, h) == \E k \in 1..Len(mapped) : mapped[k] = Some(h)

\* the number of headers before index h that no required column took
AdhocBefore(mapped, h) == Cardinality({g \in 0..(h - 1) : ~HeaderTaken(mapped, g)})

\* C15: an import gives ColumnUid i to the i-th required column, matched or
\* not, gives n, n+1, .. to the headers no required column took, in header
\* order, gives distinct headers distinct ColumnUids, and gives the same
\* assignment when the same headers are imported again
C15_UidAssignment ==
    [][/\ \A k \in 1..Len(required_columns) :
           /\ required_columns[k].uid = k - 1
           /\ (k - 1) \in DOMAIN backend_columns'
           /\ backend_columns'[k - 1] = "required"
           /\ IsSome(mapped_columns'[k]) =>
                  csv_to_col_uid'[Unwrap(mapped_columns'[k])] < Len(required_columns)
       /\ DOMAIN csv_to_col_uid' = 0..(Len(csv_columns') - 1)
       /\ \A h \in DOMAIN csv_to_col_uid' :
           ~HeaderTaken(mapped_columns', h) =>
               /\ csv_to_col_uid'[h] =
                      Len(required_columns) + AdhocBefore(mapped_columns', h)
               /\ csv_to_col_uid'[h] \in DOMAIN backend_columns'
               /\ backend_columns'[csv_to_col_uid'[h]] = "adhoc"
       /\ \A g, h \in DOMAIN csv_to_col_uid' :
           g = h \/ csv_to_col_uid'[g] # csv_to_col_uid'[h]
       /\ csv_columns' # csv_columns \/ csv_to_col_uid' = csv_to_col_uid
      ]_vars

\* two required columns, one of them found, and two headers that no
\* required column took
C15_MatchedAndAdhoc ==
    /\ Len(required_columns) = 2
    /\ Len(mapped_columns) = 2
    /\ \E k \in 1..2 : IsSome(mapped_columns[k])
    /\ \E k \in 1..2 : mapped_columns[k] = None
    /\ Cardinality({h \in DOMAIN csv_to_col_uid : ~HeaderTaken(mapped_columns, h)}) >= 2

\* ---------------------------------------------------------------------
\* Claims on the one-shot flags of clear
\* ---------------------------------------------------------------------

\* C31: a clear() of a backend that holds rows raises the one-shot flag
\* cleared and leaves the columns of the backend as they are
C31_ClearRaisesCleared ==
    [][(next_row_uid > 0 /\ next_row_uid' = 0) =>
          /\ one_shot_flags'.cleared
          /\ backend_columns' = backend_columns]_vars

\* ---------------------------------------------------------------------
\* Claims on the edit buffer when the selection moves
\* ---------------------------------------------------------------------

\* C32: a frame that starts with an edit buffer open writes it, if at all,
\* to the cell it was opened on: every modify_one of the frame goes to the
\* cell that was being edited
C32_BufferWrittenToItsCell ==
    [][IsSome(edit_origin) =>
          \A k \in 1..Len(modify_log') :
              modify_log'[k].coord = Unwrap(edit_origin)]_vars

\* ---------------------------------------------------------------------
\* Claims on the shape of a pasted block
\* ---------------------------------------------------------------------

\* the rows of the block do not all have the same number of cells
HasHoles(block) ==
    \E r1 \in 1..Len(block), r2 \in 1..Len(block) : Len(block[r1]) # Len(block[r2])

\* the greatest number of cells of a row of the block
MaxRowLength(block) ==
    CHOOSE m \in {Len(block[r]) : r \in 1..Len(block)} :
        \A r \in 1..Len(block) : Len(block[r]) <= m

\* C33: after a paste event pasting_block_with_holes is true exactly when
\* the rows of the parsed block differ in their number of cells
C33_HolesFlagged ==
    [][ev'.kind = "paste" =>
          pasting_block_with_holes' = HasHoles(ParseBlock(ev'.text))]_vars

\* C34: after a paste event pasting_block_width is the greatest number of
\* cells of a row of the parsed block
C34_WidthIsMaxRowLength ==
    [][ev'.kind = "paste" =>
          pasting_block_width' = MaxRowLength(ParseBlock(ev'.text))]_vars

\* ---------------------------------------------------------------------
\* Claims on the cells a paste changes
\* ---------------------------------------------------------------------

\* the block a frame pastes: the text of a paste event, the pending block
\* of a confirmation
BlockOfFrame == IF ev'.kind = "paste" THEN ParseBlock(ev'.text) ELSE about_to_paste_rows

\* the coordinates whose value differs between this state and the next
ChangedCoords ==
    {c \in DOMAIN cells \cup DOMAIN cells' : CellAt(cells, c) # CellAt(cells', c)}

\* the backend cell under offset (i, j) of the selection, offsets from 0
OffsetCoord(i, j) ==
    <<RowUidAt(row_uid, Unwrap(selected_range).row_start + i),
      ColAt(columns, Unwrap(selected_range).col_start + j)>>

\* coordinate c lies under an offset of the selection that the block covers
UnderBlock(c) ==
    \E i \in 0..(Len(BlockOfFrame) - 1) :
        \E j \in 0..(Len(BlockOfFrame[i + 1]) - 1) :
            /\ IsSome(OffsetCoord(i, j)[1])
            /\ IsSome(OffsetCoord(i, j)[2])
            /\ c = <<Unwrap(OffsetCoord(i, j)[1]), Unwrap(OffsetCoord(i, j)[2]).col_uid>>

\* C35: with fill_with_same off a paste, immediate or confirmed, changes
\* only cells under selection offsets that the block covers and cells of
\* the rows it created
C35_PasteChangesOnlyBlockCells ==
    [][(/\ ev'.kind \in {"paste", "paste_btn", "ctrl_enter"}
        /\ ~fill_with_same_on_paste
        /\ IsSome(selected_range))
       => \A c \in ChangedCoords :
              \/ UnderBlock(c)
              \/ c[1] \in {row_uid'[k] : k \in (Len(row_uid) + 1)..Len(row_uid')}]_vars

\* a confirmed paste with fill_with_same off wrote some, but not all, of
\* the cells of the selection
C35_PartOfSelectionWritten ==
    /\ ev.kind = "paste_btn"
    /\ ~fill_with_same_on_paste
    /\ IsSome(selected_range)
    /\ modify_log # <<>>
    /\ Len(modify_log) < width(Unwrap(selected_range)) * height(Unwrap(selected_range))

\* ---------------------------------------------------------------------
\* Claims on SelectedRange driven through its methods
\* ---------------------------------------------------------------------

\* C36: a range built by single_cell, single_row or rect and changed by any
\* sequence of its methods keeps row_start <= row_end and
\* col_start <= col_end, so its width and its height are at least 1
C36_RangeOrdered ==
    IsSome(selected_range) =>
        /\ Unwrap(selected_range).row_start <= Unwrap(selected_range).row_end
        /\ Unwrap(selected_range).col_start <= Unwrap(selected_range).col_end
        /\ width(Unwrap(selected_range)) >= 1
        /\ height(Unwrap(selected_range)) >= 1

\* a single cell was moved one column to the right without Shift
C36_SingleCellMovedRight ==
    /\ call.name = "move_right"
    /\ ~call.flag
    /\ IsSome(selected_range)
    /\ is_single_cell(Unwrap(call.pre))
    /\ is_single_cell(Unwrap(selected_range))
    /\ Unwrap(selected_range).col_start = Unwrap(call.pre).col_start + 1

\* C40: after set_editing(false) is_editing() is false; after
\* set_editing(true) it is true exactly when the range is a single cell
C40_SetEditingSetsFlag ==
    [][call'.name = "set_editing" =>
          Unwrap(selected_range').is_editing =
              (call'.flag /\ is_single_cell(Unwrap(selected_range')))]_vars

\* ---------------------------------------------------------------------
\* TableView::map_columns (table_view.rs) over a CsvBackend without
\* required columns (backends/csv.rs)
\* ---------------------------------------------------------------------

\* headers of a loaded file, length of the view's column list
MaxMapHeaders == 2

MaxViewColumns == 7

\* RequiredColumn::new of the view: the lower-cased name, then the
\* lower-cased synonyms
ViewRequiredNew(name, synonyms, ty) ==
    [synonyms |-> <<to_lowercase(name)>>
                  \o [k \in 1..Len(synonyms) |-> to_lowercase(synonyms[k])],
     ty |-> ty]

ViewRequiredChoices ==
    {ViewRequiredNew(<<"a">>, <<>>, "Str"),
     ViewRequiredNew(<<"A">>, <<<<"B">>>>, "U32"),
     ViewRequiredNew(<<"b">>, <<>>, "Str")}

\* the orders in which HashMap::iter can visit the keys of a map
IterOrders(map) ==
    {f \in [1..Cardinality(DOMAIN map) -> DOMAIN map] :
        \A a \in DOMAIN f, b \in DOMAIN f : a # b => f[a] # f[b]}

\* the inner loop over the synonyms: the lower-cased name is one of them
SynonymMatches(required, col) ==
    \E k \in 1..Len(required.synonyms) : to_lowercase(col.name) = required.synonyms[k]

\* the loop over the required columns and, inside it, over the backend's
\* columns in iteration order: a header is pushed for every match, whether
\* or not the column is in matched_headers already
MatchedColumns(required, cols, order) ==
    LET pair(n) == [req |-> required[((n - 1) \div Len(order)) + 1],
                    uid |-> order[((n - 1) % Len(order)) + 1]]
        hits == SelectSeq([n \in 1..(Len(required) * Len(order)) |-> pair(n)],
                          LAMBDA p : SynonymMatches(p.req, cols[p.uid]))
    IN  [n \in 1..Len(hits) |->
            [col_uid |-> hits[n].uid, ty |-> hits[n].req.ty, is_tool |-> FALSE,
             read_only |-> FALSE]]

\* matched_headers
MatchedHeaders(required, cols) ==
    {u \in DOMAIN cols : \E k \in 1..Len(required) : SynonymMatches(required[k], cols[u])}

\* sorted_by_key on column ids
RECURSIVE SortedIds(_)
SortedIds(S) ==
    IF S = {} THEN <<>>
    ELSE LET m == CHOOSE x \in S : \A y \in S : x <= y
         IN  <<m>> \o SortedIds(S \ {m})

\* the columns no required column matched, by ascending id
AdditionalColumns(required, cols) ==
    LET ids == SortedIds(DOMAIN cols \ MatchedHeaders(required, cols))
    IN  [n \in 1..Len(ids) |->
            [col_uid |-> ids[n], ty |-> cols[ids[n]].ty, is_tool |-> FALSE,
             read_only |-> FALSE]]

\* the tool column pushed by map_columns: col_uid 0
ToolColumn == [col_uid |-> 0, ty |-> "Empty", is_tool |-> TRUE, read_only |-> FALSE]

\* TableView::map_columns: the tool column, then the matched and the
\* additional columns, are pushed to self.state.columns
\* (loose_column_order is empty: PersistentSettings::default())
map_columns(state_columns, required, cols, order) ==
    state_columns \o <<ToolColumn>> \o MatchedColumns(required, cols, order)
    \o AdditionalColumns(required, cols)

\* TableView::new over CsvBackend::new([])
InitMap ==
    /\ cells_updated = <<>>
    /\ about_to_paste_rows = <<>>
    /\ pasting_block_width = 0
    /\ pasting_block_with_holes = FALSE
    /\ create_rows_on_paste = FALSE
    /\ fill_with_same_on_paste = FALSE
    /\ create_adhoc_cols_on_paste = FALSE
    /\ modal_open = FALSE
    /\ copied_text = <<>>
    /\ copied_cells = [vals |-> <<>>, tys |-> <<>>]
    /\ modify_log = <<>>
    /\ prompt_shown = FALSE
    /\ ev = NoEvent
    /\ frames = 0
    /\ columns = <<>>
    /\ selected_range = None
    /\ last_pressed = None
    /\ call = NoCall
    /\ NoImport
    /\ VariantBackendNew
    /\ NoLoad
    /\ NotEditing
    /\ is_read_only = FALSE
    /\ editable_cells = FALSE
    /\ row_uid = <<>>
    /\ cells = <<>>
    /\ view_required_columns \in SeqsUpTo(ViewRequiredChoices, MaxRequired)
    /\ data_columns = <<>>
    /\ column_info_updated = FALSE

\* CsvBackend::load of a file that holds a header record and nothing else
LoadHeaderOnly ==
    /\ \E headers \in SeqsUpTo(NameChoices, MaxMapHeaders) \ {<<>>} :
        data_columns' = [idx \in 0..(Len(headers) - 1) |->
                            [name |-> headers[idx + 1], ty |-> "Str"]]
    /\ row_uid' = <<>>
    /\ cells' = <<>>
    /\ column_info_updated' = TRUE
    /\ UNCHANGED <<cells_updated, view_vars, trace_vars, call, import_vars, variant_vars,
                   is_read_only, editable_cells, edit_vars, load_vars,
                   view_required_columns>>

\* TableView::show without input and without a selection: the columns are
\* mapped when the backend says so, the backend is polled
ShowMapped ==
    /\ \E order \in IterOrders(data_columns) :
        columns' = IF column_info_updated
                   THEN map_columns(columns, view_required_columns, data_columns, order)
                   ELSE columns
    /\ Len(columns') <= MaxViewColumns
    /\ column_info_updated' = FALSE
    /\ frames < MaxFrames
    /\ frames' = frames + 1
    /\ UNCHANGED <<backend_vars, selected_range, last_pressed, about_to_paste_rows,
                   pasting_block_width, pasting_block_with_holes, create_rows_on_paste,
                   fill_with_same_on_paste, create_adhoc_cols_on_paste, modal_open,
                   copied_text, copied_cells, modify_log, prompt_shown, ev,
                   call, import_vars, variant_vars, is_read_only, editable_cells,
                   edit_vars, load_vars, view_required_columns, data_columns>>

NextMap ==
    \/ LoadHeaderOnly
    \/ ShowMapped

SpecMap == InitMap /\ [][NextMap]_vars

\* the positions of the view's list that hold the backend column u
PositionsOf(u) == {k \in 1..Len(columns) : ~columns[k].is_tool /\ columns[k].col_uid = u}

\* C37: once the view has taken notice of the backend's columns, its list
\* holds one tool column and every used column of the backend once
C37_ColumnsMappedOnce ==
    (~column_info_updated /\ columns # <<>>) =>
        /\ Cardinality({k \in 1..Len(columns) : columns[k].is_tool}) = 1
        /\ \A u \in DOMAIN data_columns : Cardinality(PositionsOf(u)) = 1

\* ---------------------------------------------------------------------
\* Claims on the tool column
\* ---------------------------------------------------------------------

\* the visual indices of the selection that hold a data column
DataColumnsUnder(sel) ==
    {c \in sel.col_start..sel.col_end :
        IsSome(ColAt(columns, c)) /\ ~Unwrap(ColAt(columns, c)).is_tool}

\* no two visual columns have the same ColumnUid
DistinctColumnUids ==
    \A a \in 1..Len(columns), b \in 1..Len(columns) :
        a # b => columns[a].col_uid # columns[b].col_uid

\* Ctrl+C reads cells of data columns only
CopySkipsToolColumn ==
    (ev'.kind = "ctrl_c" /\ IsSome(selected_range) /\ copied_cells' # copied_cells) =>
        Len(copied_cells'.tys) <= Cardinality(DataColumnsUnder(Unwrap(selected_range)))

\* a paste writes, in each row, to data columns only
PasteSkipsToolColumn ==
    (ev'.kind \in {"paste", "paste_btn"} /\ IsSome(selected_range)) =>
        Len(modify_log') <=
            (height(Unwrap(selected_range)) + Len(row_uid') - Len(row_uid))
            * Cardinality(DataColumnsUnder(Unwrap(selected_range)))

\* C39: the tool column stands for no data column: the visual columns have
\* distinct ColumnUids, and neither Ctrl+C nor a paste reaches a backend
\* cell through the visual index of the tool column
C39_ToolColumnApart ==
    [][/\ DistinctColumnUids
       /\ CopySkipsToolColumn
       /\ PasteSkipsToolColumn]_vars

\* C38: at the end of a frame in which no cell is being edited neither
\* save_cell_changes_and_deselect nor discard_cell_changes_and_deselect is
\* left set
C38_NoStaleDeferredFlag ==
    ~IsSome(cell_when_editing) =>
        /\ ~save_cell_changes_and_deselect
        /\ ~discard_cell_changes_and_deselect

====
